---- MODULE Spec2Model ----
(***************************************************************************)
(* lazyrepo: a caching task runner for monorepos.                          *)
(*                                                                         *)
(* The model covers the `run` command (src/commands/run.js), the            *)
(* configuration accessors (config.js), computeManifest                     *)
(* (computeManifest.js) and, modelled from the specification where the      *)
(* source is not available, the task graph, the scheduler, the manifest     *)
(* builder and the input enumerator.                                        *)
(***************************************************************************)
EXTENDS Integers, Sequences, FiniteSets, TLC

(***************************************************************************)
(* Bounds of the model.                                                    *)
(***************************************************************************)
MaxRuns == 2          \* invocations of `run` in one behaviour
MaxConcurrent == 2    \* size of the worker pool
MaxEnvRuns == 3       \* invocations in a workspace whose tasks list env vars

(***************************************************************************)
(* Strings.  Ids (task keys, env var names, repo-relative paths) are        *)
(* compared by JavaScript string order; IdOrder lists every id of the       *)
(* model in that order.                                                     *)
(***************************************************************************)
IdOrder ==
  << "CI", "Codegen::<rootDir>", "NODE_ENV",
     "build::<rootDir>", "build::packages/app", "build::packages/core",
     "build::packages/utils",
     "codegen.in",
     "codegen::<rootDir>", "codegen::packages/app", "codegen::packages/core",
     "codegen::packages/utils",
     "gen.txt", "lazy.config.js", "lazy.config.json", "package-lock.json",
     "packages/app/.out.txt", "packages/app/index.js",
     "packages/app/lazy.config.js", "packages/app/lazy.config.json",
     "packages/app/new-file.txt",
     "packages/app/out.txt", "packages/app/package.json",
     "packages/core/.out.txt", "packages/core/index.js",
     "packages/core/lazy.config.js", "packages/core/lazy.config.json",
     "packages/core/new-file.txt",
     "packages/core/out.txt", "packages/core/package.json",
     "packages/utils/.out.txt", "packages/utils/index.js",
     "packages/utils/lazy.config.js", "packages/utils/lazy.config.json",
     "packages/utils/new-file.txt",
     "packages/utils/out.txt", "packages/utils/package.json",
     "prep::<rootDir>", "prep::packages/app", "prep::packages/core",
     "prep::packages/utils" >>

RankOf == [ s \in { IdOrder[i] : i \in 1..Len(IdOrder) } |->
              CHOOSE i \in 1..Len(IdOrder) : IdOrder[i] = s ]

Rank(s) == RankOf[s]

StrLess(a, b) == Rank(a) < Rank(b)

RECURSIVE InsertSorted(_, _)
InsertSorted(x, s) ==
  IF s = <<>> THEN <<x>>
  ELSE IF StrLess(x, Head(s)) THEN <<x>> \o s
  ELSE <<Head(s)>> \o InsertSorted(x, Tail(s))

\* Array.prototype.sort() on an array of strings
RECURSIVE SortStrings(_)
SortStrings(s) ==
  IF s = <<>> THEN <<>> ELSE InsertSorted(Head(s), SortStrings(Tail(s)))

RECURSIVE SetToSeq(_)
SetToSeq(S) ==
  IF S = {} THEN <<>>
  ELSE LET x == CHOOSE y \in S : TRUE IN <<x>> \o SetToSeq(S \ {x})

Range(s) == { s[i] : i \in 1..Len(s) }

RECURSIVE Flat(_)
Flat(ss) == IF ss = <<>> THEN <<>> ELSE Head(ss) \o Flat(Tail(ss))

\* uniq(): the first occurrence of every element, in order
RECURSIVE Uniq(_)
Uniq(s) ==
  IF s = <<>> THEN <<>>
  ELSE LET r == Uniq(SubSeq(s, 1, Len(s) - 1))
           x == s[Len(s)]
       IN IF x \in Range(r) THEN r ELSE Append(r, x)

(***************************************************************************)
(* The workspace: directories, packages and files.                         *)
(***************************************************************************)
RootDir == ""

PkgDir(p) == "packages/" \o p

PathOf(dir, name) == IF dir = RootDir THEN name ELSE dir \o "/" \o name

RootNames == {"package-lock.json", "lazy.config.js", "lazy.config.json",
              "codegen.in", "gen.txt"}

PkgNames == {".out.txt", "index.js", "lazy.config.js", "lazy.config.json",
             "new-file.txt",
             "out.txt", "package.json"}

AllPkgs == {"app", "core", "utils"}

FileTable ==
  { [dir |-> RootDir, name |-> n] : n \in RootNames }
    \cup { [dir |-> PkgDir(p), name |-> n] : p \in AllPkgs, n \in PkgNames }

AllPaths == { PathOf(f.dir, f.name) : f \in FileTable }

FileInfo == [ path \in AllPaths |->
                CHOOSE f \in FileTable : PathOf(f.dir, f.name) = path ]

FileOf(path) == FileInfo[path]

\* a path segment that starts with a dot
Hidden(path) == FileOf(path).name = ".out.txt"

\* the names lazy.config.{js,cjs,mjs,ts,cts,mts,json} of the model
ConfigFileNames == {"lazy.config.js", "lazy.config.json"}

(***************************************************************************)
(* Configuration values as written in lazy.config.* .  An absent key is an  *)
(* absent record field; cache: 'none' is the record NONE; a glob given as   *)
(* an array is [array |-> <<...>>].                                          *)
(***************************************************************************)
NONE == [none |-> TRUE]

EmptyObject == <<>>

Has(obj, field) == field \in DOMAIN obj

TopLevelTask(inp, out) ==
  [runType |-> "top-level",
   cache |-> [inputs |-> [array |-> <<inp>>], outputs |-> [array |-> out]]]

ScenarioNames ==
  {"default", "appNoInherit", "independent", "rootNone", "utilsNone",
   "runsAfterInherit", "runsAfterUnsorted", "visibleOut", "usesOutput",
   "sharedOut", "cyclic", "envGated", "twoRootConfigs", "twoPkgConfigs",
   "unsortedNone", "dupDeps", "noOutput", "baseOutput",
   "serial", "forceOnce", "localAfter", "ownConfig"}

\* a workspace with two task names that differ only in the case of a letter
ClashingNames == {"slugClash"}

AnyScenarioNames == ScenarioNames \cup ClashingNames

\* a workspace whose invocations differ in their filter paths
FilteredNames == {"filterOnce"}

\* the packages of the workspace, as getRepoDetails() lists them
ScenarioPkgs(sc) ==
  CASE sc \in {"default", "appNoInherit"} -> <<"app", "core", "utils">>
    [] sc \in {"runsAfterUnsorted", "noOutput", "baseOutput", "slugClash",
                "forceOnce", "localAfter"} ->
         <<"utils">>
    [] OTHER -> <<"core", "utils">>

\* package.json dependencies restricted to the workspace
LocalDeps(sc, p) ==
  CASE p = "app" -> <<"core">>
    [] p = "core" /\ sc # "dupDeps" -> <<"utils">>
    [] p = "core" /\ sc = "dupDeps" -> <<"utils", "utils">>
    [] p = "utils" /\ sc = "cyclic" -> <<"core">>
    [] OTHER -> <<>>

\* the file each task's command writes (`echo $RANDOM > .out.txt`)
CommandOutput(sc, taskName, dir) ==
  CASE taskName = "codegen" -> "gen.txt"
    [] taskName \in {"prep", "Codegen"} -> "null"
    [] sc \in {"visibleOut", "sharedOut"} -> PathOf(dir, "out.txt")
    [] OTHER -> PathOf(dir, ".out.txt")

\* base includes that match every file of the workspace
DefaultBaseIncludes_all == << "**/*" >>

DefaultBaseIncludes ==
  << "<rootDir>/{yarn.lock,pnpm-lock.yaml,package-lock.json}",
     "<rootDir>/lazy.config.*" >>

\* the root lazy.config.js, or no file
RootConfigOf(sc) ==
  CASE sc = "independent" ->
         [filePath |-> "lazy.config.js",
          config |-> [tasks |-> [build |-> [runType |-> "independent"]]]]
    [] sc = "rootNone" ->
         [filePath |-> "lazy.config.js",
          config |-> [tasks |-> [build |-> [cache |-> NONE]]]]
    [] sc = "runsAfterInherit" ->
         [filePath |-> "lazy.config.js",
          config |-> [tasks |->
            [build |-> [runsAfter |->
                          << <<"codegen", [inheritsInput |-> TRUE]>> >>],
             codegen |-> TopLevelTask("codegen.in", <<"gen.txt">>)]]]
    [] sc \in {"runsAfterUnsorted", "unsortedNone"} ->
         [filePath |-> "lazy.config.js",
          config |-> [tasks |->
            [build |-> [runsAfter |->
                          << <<"prep", [inheritsInput |-> TRUE,
                                        usesOutput |-> FALSE]>>,
                             <<"codegen", [inheritsInput |-> TRUE]>> >>],
             prep |-> TopLevelTask("codegen.in", <<>>),
             codegen |-> TopLevelTask("codegen.in", <<"gen.txt">>)]]]
    [] sc = "sharedOut" ->
         [filePath |-> "lazy.config.js",
          config |-> [baseCacheConfig |->
                        [includes |-> DefaultBaseIncludes
                                        \o <<"packages/core/out.txt">>],
                      tasks |-> [build |-> [runType |-> "independent"]]]]
    [] sc = "envGated" ->
         [filePath |-> "lazy.config.js",
          config |-> [baseCacheConfig |-> [envInputs |-> <<"NODE_ENV">>]]]
    [] sc = "noOutput" ->
         [filePath |-> "lazy.config.js",
          config |-> [tasks |->
            [build |-> [runsAfter |->
                          << <<"codegen", [inheritsInput |-> TRUE,
                                           usesOutput |-> FALSE]>> >>],
             codegen |-> TopLevelTask("codegen.in", <<"gen.txt">>)]]]
    [] sc = "baseOutput" ->
         [filePath |-> "lazy.config.js",
          config |-> [baseCacheConfig |->
                        [includes |-> DefaultBaseIncludes \o <<"gen.txt">>],
                      tasks |->
            [build |-> [runsAfter |->
                          << <<"codegen", [usesOutput |-> FALSE]>> >>],
             codegen |-> TopLevelTask("codegen.in", <<"gen.txt">>)]]]
    [] sc = "slugClash" ->
         [filePath |-> "lazy.config.js",
          config |-> [tasks |->
            [build |-> [runsAfter |->
                          << <<"Codegen", [inheritsInput |-> FALSE]>>,
                             <<"codegen", [inheritsInput |-> FALSE]>> >>],
             Codegen |-> TopLevelTask("codegen.in", <<>>),
             codegen |-> TopLevelTask("codegen.in", <<"gen.txt">>)]]]
    [] sc = "serial" ->
         [filePath |-> "lazy.config.js",
          config |-> [tasks |->
            [build |-> [runType |-> "independent",
                        parallel |-> FALSE,
                        runsAfter |->
                          << <<"codegen", [inheritsInput |-> FALSE]>>,
                             <<"prep", [inheritsInput |-> FALSE]>> >>],
             codegen |-> [parallel |-> FALSE]
                           @@ TopLevelTask("codegen.in", <<"gen.txt">>),
             prep |-> TopLevelTask("codegen.in", <<>>)]]]
    [] sc = "localAfter" ->
         [filePath |-> "lazy.config.js",
          config |-> [tasks |->
            [build |-> [runsAfter |->
                          << <<"prep", [usesOutput |-> FALSE]>>,
                             <<"codegen", [inheritsInput |-> TRUE]>>,
                             <<"Codegen", [inheritsInput |-> TRUE]>> >>],
             prep |-> TopLevelTask("codegen.in", <<>>),
             codegen |-> TopLevelTask("codegen.in", <<"gen.txt">>)]]]
    [] sc = "ownConfig" ->
         [filePath |-> "lazy.config.js",
          config |-> [baseCacheConfig |-> [envInputs |-> <<"NODE_ENV">>],
                      tasks |-> [build |-> [runType |-> "independent"]]]]
    [] sc = "usesOutput" ->
         [filePath |-> "lazy.config.js",
          config |-> [tasks |->
            [build |-> [runType |-> "independent",
                        runsAfter |->
                          << <<"codegen", [inheritsInput |-> FALSE]>> >>],
             codegen |-> TopLevelTask("codegen.in", <<"gen.txt">>)]]]
    [] OTHER -> [filePath |-> "null", config |-> EmptyObject]

NoInheritConfig ==
  [filePath |-> "lazy.config.js",
   config |-> [tasks |-> [build |->
     [cache |-> [inheritsInputFromDependencies |-> FALSE]]]]]

\* the lazy.config.js files of the package directories
PackageDirConfigsOf(sc) ==
  CASE sc = "appNoInherit" -> (PkgDir("app") :> NoInheritConfig)
    [] sc \in {"utilsNone", "unsortedNone"} ->
         (PkgDir("utils") :>
            [filePath |-> "lazy.config.js",
             config |-> [tasks |-> [build |-> [cache |-> NONE]]]])
    [] sc = "ownConfig" ->
         (PkgDir("utils") :>
            [filePath |-> "lazy.config.js",
             config |-> [tasks |-> [prep |-> [cache |-> NONE]]]])
    [] sc = "envGated" ->
         (PkgDir("utils") :>
            [filePath |-> "lazy.config.js",
             config |-> [tasks |-> [build |->
               [cache |-> [envInputs |-> <<"CI", "NODE_ENV", "CI">>]]]]])
    [] OTHER -> EmptyObject

\* the files of the workspace before the first invocation
InitiallyPresent(sc) ==
  {"package-lock.json"}
    \cup { PathOf(PkgDir(p), n) :
             p \in Range(ScenarioPkgs(sc)), n \in {"index.js", "package.json"} }
    \cup (IF RootConfigOf(sc).filePath = "null" THEN {} ELSE {"lazy.config.js"})
    \cup { PathOf(d, "lazy.config.js") : d \in DOMAIN PackageDirConfigsOf(sc) }
    \cup (IF sc \in {"runsAfterInherit", "runsAfterUnsorted", "usesOutput",
                      "unsortedNone", "noOutput", "baseOutput", "slugClash",
                      "serial", "localAfter"}
            THEN {"codegen.in"} ELSE {})
    \cup (IF sc = "twoRootConfigs"
            THEN {"lazy.config.js", "lazy.config.json"} ELSE {})
    \cup (IF sc = "twoPkgConfigs"
            THEN { PathOf(PkgDir("utils"), n) :
                     n \in {"lazy.config.js", "lazy.config.json"} }
            ELSE {})

(***************************************************************************)
(* config.js: Config and TaskConfig.                                        *)
(***************************************************************************)
PackagesByName(sc) ==
  [ p \in Range(ScenarioPkgs(sc)) |->
      [name |-> p, dir |-> PkgDir(p), localDeps |-> LocalDeps(sc, p)] ]

\* glob.sync('lazy.config.{js,cjs,mjs,ts,cts,mts,json}', {cwd: dir})
ConfigFilesIn(sc, dir) ==
  { path \in InitiallyPresent(sc) :
      FileOf(path).dir = dir /\ FileOf(path).name \in ConfigFileNames }

\* the object a config file of the directory exports
loadConfigObject(sc, dir) ==
  IF dir = RootDir THEN RootConfigOf(sc).config
  ELSE IF dir \in DOMAIN PackageDirConfigsOf(sc)
    THEN PackageDirConfigsOf(sc)[dir].config
  ELSE EmptyObject

\* getConfigFromDir that loads one of several config files
getConfigFromDir_first(sc, dir) ==
  IF ConfigFilesIn(sc, dir) = {} THEN [filePath |-> "null", config |-> EmptyObject]
  ELSE [filePath |-> CHOOSE f \in ConfigFilesIn(sc, dir) : TRUE,
        config |-> loadConfigObject(sc, dir)]

\* the loaded config of a directory, or the exit of the process
getConfigFromDir(sc, dir) ==
  IF Cardinality(ConfigFilesIn(sc, dir)) > 1 THEN [exit |-> 1]
  ELSE IF Cardinality(ConfigFilesIn(sc, dir)) = 0
    THEN [filePath |-> "null", config |-> EmptyObject]
  ELSE [filePath |-> CHOOSE f \in ConfigFilesIn(sc, dir) : TRUE,
        config |-> loadConfigObject(sc, dir)]

\* the directories Config.from() loads a config from
ConfigDirs(sc) == {RootDir} \cup { PkgDir(p) : p \in Range(ScenarioPkgs(sc)) }

\* the Config object that Config.from() builds for a workspace, or the exit
ConfigOf(sc) ==
  IF \E dir \in ConfigDirs(sc) : Has(getConfigFromDir(sc, dir), "exit")
    THEN [exit |-> 1]
  ELSE
  [workspaceRoot |-> RootDir,
   rootConfig |-> getConfigFromDir(sc, RootDir),
   packageDirConfigs |->
     [ dir \in { d \in ConfigDirs(sc) \ {RootDir} :
                   getConfigFromDir(sc, d).filePath # "null" } |->
         getConfigFromDir(sc, dir) ],
   repoDetails |-> [packagesByName |-> PackagesByName(sc)]]

TaskConfig(dir, name, config) == [dir |-> dir, name |-> name, _config |-> config]

\* getTaskConfig that takes from the root config the tasks that the config
\* of the directory does not define
getTaskConfig_merged(config, taskDir, taskName) ==
  LET c == IF taskDir \in DOMAIN config.packageDirConfigs
                /\ Has(config.packageDirConfigs[taskDir].config, "tasks")
                /\ Has(config.packageDirConfigs[taskDir].config.tasks, taskName)
             THEN config.packageDirConfigs[taskDir].config
             ELSE config.rootConfig.config
  IN TaskConfig(taskDir, taskName,
       IF Has(c, "tasks") /\ Has(c.tasks, taskName)
         THEN c.tasks[taskName] ELSE EmptyObject)

getTaskConfig(config, taskDir, taskName) ==
  LET c == IF taskDir \in DOMAIN config.packageDirConfigs
             THEN config.packageDirConfigs[taskDir].config
             ELSE config.rootConfig.config
  IN TaskConfig(taskDir, taskName,
       IF Has(c, "tasks") /\ Has(c.tasks, taskName)
         THEN c.tasks[taskName] ELSE EmptyObject)

getTaskKey(config, taskDir, taskName) ==
  taskName \o "::" \o (IF taskDir = config.workspaceRoot THEN "<rootDir>" ELSE taskDir)

getBaseCacheConfig(config, taskDir) ==
  LET pc == IF taskDir \in DOMAIN config.packageDirConfigs
              THEN config.packageDirConfigs[taskDir].config ELSE EmptyObject
      rc == config.rootConfig.config
      found == Has(pc, "baseCacheConfig") \/ Has(rc, "baseCacheConfig")
      c == IF Has(pc, "baseCacheConfig") THEN pc.baseCacheConfig
           ELSE IF Has(rc, "baseCacheConfig") THEN rc.baseCacheConfig
           ELSE EmptyObject
  IN [includes |-> IF found /\ Has(c, "includes") THEN c.includes
                   ELSE DefaultBaseIncludes,
      excludes |-> IF found /\ Has(c, "excludes") THEN c.excludes ELSE <<>>,
      envInputs |-> IF found /\ Has(c, "envInputs") THEN c.envInputs ELSE <<>>]

\* @sindresorhus/slugify on the task names of the model: lowercased
slugify(name) ==
  CASE name = "build" -> "build"
    [] name = "codegen" -> "codegen"
    [] name = "Codegen" -> "codegen"
    [] name = "prep" -> "prep"

\* the manifest at a path that does not depend on the name of the task
getManifestPath_noName(tc) == tc.dir \o "/.lazy/manifests/manifest"

getManifestPath(tc) == tc.dir \o "/.lazy/manifests/" \o slugify(tc.name)

\* the .next manifest at the path of the manifest itself
getNextManifestPath_final(tc) == tc.dir \o "/.lazy/manifests/" \o slugify(tc.name)

getNextManifestPath(tc) == tc.dir \o "/.lazy/manifests/" \o slugify(tc.name) \o ".next"

getDiffPath(tc) == tc.dir \o "/.lazy/diffs/" \o slugify(tc.name)

runType(tc) == IF Has(tc._config, "runType") THEN tc._config.runType ELSE "dependent"

runsAfter(tc) == IF Has(tc._config, "runsAfter") THEN tc._config.runsAfter ELSE <<>>

parallel(tc) == IF Has(tc._config, "parallel") THEN tc._config.parallel ELSE TRUE

IsArray(glob) == Has(glob, "array")

\* extractGlobPattern without the branch of Array.isArray
extractGlobPattern_noArray(present, glob) ==
  IF ~present THEN [include |-> <<"**/*">>, exclude |-> <<>>]
  ELSE [include |-> IF Has(glob, "include") THEN glob.include ELSE <<"**/*">>,
        exclude |-> IF Has(glob, "exclude") THEN glob.exclude ELSE <<>>]

extractGlobPattern(present, glob) ==
  IF ~present THEN [include |-> <<"**/*">>, exclude |-> <<>>]
  ELSE IF IsArray(glob) THEN [include |-> glob.array, exclude |-> <<>>]
  ELSE [include |-> IF Has(glob, "include") THEN glob.include ELSE <<"**/*">>,
        exclude |-> IF Has(glob, "exclude") THEN glob.exclude ELSE <<>>]

IsNone(c) == Has(c, "none")

cache(tc) ==
  LET present == Has(tc._config, "cache")
      c == IF present THEN tc._config.cache ELSE EmptyObject
  IN IF present /\ IsNone(c) THEN c
     ELSE [envInputs |-> IF Has(c, "envInputs") THEN c.envInputs ELSE <<>>,
           inheritsInputFromDependencies |->
             IF Has(c, "inheritsInputFromDependencies")
               THEN c.inheritsInputFromDependencies ELSE TRUE,
           inputs |-> extractGlobPattern(Has(c, "inputs"),
                        IF Has(c, "inputs") THEN c.inputs ELSE EmptyObject),
           outputs |-> extractGlobPattern(Has(c, "outputs"),
                         IF Has(c, "outputs") THEN c.outputs ELSE EmptyObject),
           usesOutputFromDependencies |->
             IF Has(c, "usesOutputFromDependencies")
               THEN c.usesOutputFromDependencies ELSE TRUE]

(***************************************************************************)
(* State.                                                                  *)
(***************************************************************************)
VARIABLES
  scenario,     \* the workspace the behaviour is about
  files,        \* the workspace files: path -> [present, content, mtime]
  env,          \* process.env: the variables that are set
  lazyFiles,    \* the files under the .lazy directories: path -> lines
  phase,        \* "idle" between invocations, "running" inside runAllTasks
  runNo,        \* number of invocations started
  request,      \* the RequestedTask of the current or last invocation
  allTasks,     \* TaskGraph.allTasks: key -> ScheduledTask
  sortedTaskKeys, \* TaskGraph.sortedTaskKeys
  exitStatus,   \* exit status of the last finished invocation
  fatal,        \* message of the error that aborted the last invocation
  edits,        \* paths the user changed since the last invocation ended
  atStart,      \* snapshot taken when the current invocation started
  thisRun,      \* what the current invocation has done so far
  lastRun       \* summary of the invocation before the current one

vars == << scenario, files, env, lazyFiles, phase, runNo, request, allTasks,
           sortedTaskKeys, exitStatus, fatal, edits, atStart, thisRun, lastRun >>

(***************************************************************************)
(* hash.js.  A hash is modelled as collision free: the tagged value.        *)
(***************************************************************************)
hashString(str) == <<"hash", str>>

hashFile(path) == <<"hash", files[path].content>>

NoKey == <<>>

\* process.env[name] ?? ""
EnvValue(e, name) == IF Has(e, name) THEN e[name] ELSE ""

(***************************************************************************)
(* Globs (fast-glob with dot: false) over the files of the model.           *)
(***************************************************************************)
Under(cwd, path) == cwd = RootDir \/ FileOf(path).dir = cwd

MatchGlob(pattern, cwd, path) ==
  CASE pattern = "**/*" -> Under(cwd, path) /\ ~Hidden(path)
    [] pattern = "<rootDir>/{yarn.lock,pnpm-lock.yaml,package-lock.json}" ->
         FileOf(path).dir = RootDir /\ FileOf(path).name = "package-lock.json"
    [] pattern = "<rootDir>/lazy.config.*" ->
         FileOf(path).dir = RootDir /\ FileOf(path).name \in ConfigFileNames
    [] OTHER -> path = PathOf(cwd, pattern)

GlobFiles(fs, cwd, include, exclude) ==
  { path \in AllPaths :
      /\ fs[path].present
      /\ \E i \in 1..Len(include) : MatchGlob(include[i], cwd, path)
      /\ ~ \E i \in 1..Len(exclude) : MatchGlob(exclude[i], cwd, path) }

(***************************************************************************)
(* getInputFiles.js: base cache includes, the package's input globs and     *)
(* the extra files, as a duplicate-free list.                               *)
(***************************************************************************)
InputFilesIn(fs, tasks, task, extraFiles) ==
  LET base == getBaseCacheConfig(tasks.config, task.taskDir)
      c == cache(task.taskConfig)
  IN GlobFiles(fs, tasks.config.workspaceRoot, base.includes, base.excludes)
       \cup GlobFiles(fs, task.taskDir, c.inputs.include, c.inputs.exclude)
       \cup Range(extraFiles)

getInputFiles(tasks, task, extraFiles) ==
  SetToSeq(InputFilesIn(files, tasks, task, extraFiles))

\* the files matching cache.outputs under the task's directory, sorted
getOutputFiles(fs, task) ==
  IF IsNone(cache(task.taskConfig)) THEN <<>>
  ELSE LET c == cache(task.taskConfig)
       IN SortStrings(SetToSeq(
            GlobFiles(fs, task.taskDir, c.outputs.include, c.outputs.exclude)))

(***************************************************************************)
(* computeManifest.js: the manifest types and their order.                 *)
(***************************************************************************)
types ==
  [upstreamTaskInputs |-> "upstream task inputs",
   dependencyTaskInputs |-> "dependency task inputs",
   envVar |-> "env var",
   file |-> "file"]

order == << types.upstreamTaskInputs, types.dependencyTaskInputs,
            types.envVar, types.file >>

\* Array.prototype.indexOf: the zero-based index, or -1
IndexOf(seq, x) ==
  IF x \in Range(seq) THEN (CHOOSE i \in 1..Len(seq) : seq[i] = x) - 1 ELSE -1

compareManifestTypes(a, b) ==
  LET aIndex == IndexOf(order, a)
      bIndex == IndexOf(order, b)
  IN IF aIndex = bIndex THEN 0 ELSE IF aIndex < bIndex THEN -1 ELSE 1

(***************************************************************************)
(* ManifestConstructor.js.  A manifest line is <<type, id, hash, meta>>;    *)
(* meta is <<>> when the line has no metadata.                              *)
(***************************************************************************)
Line(type, id, hash, meta) == <<type, id, hash, meta>>

\* the aggregate hash of a manifest
ManifestHash(lines) == <<"hash", lines>>

\* the previous manifest of a builder: its lines, or nothing
PreviousLines(previousManifestPath) ==
  IF previousManifestPath \in DOMAIN lazyFiles
    THEN lazyFiles[previousManifestPath] ELSE <<>>

\* the ordering assertion of update(): the entry may follow the last one
InOrder(last, type, id) ==
  LET c == compareManifestTypes(last[1], type)
  IN c < 0 \/ (c = 0 /\ ~StrLess(id, last[2]))

\* copyLineOverIfMetaIsSame(): the previous line with this type, id and meta
CopyableLines(prev, type, id, meta) ==
  { i \in 1..Len(prev) : prev[i][1] = type /\ prev[i][2] = id /\ prev[i][4] = meta }

\* the diff without the lines of the entries that only the previous manifest has
ManifestDiff_noRemoved(prev, next) ==
  LET ids(m) == { <<m[i][1], m[i][2]>> : i \in 1..Len(m) }
      hashOf(m, e) == m[CHOOSE i \in 1..Len(m) : <<m[i][1], m[i][2]>> = e][3]
  IN { <<"+ added", e[1], e[2]>> : e \in ids(next) \ ids(prev) }
       \cup { <<"+- changed", e[1], e[2]>> :
                e \in { x \in ids(prev) \cap ids(next) :
                          hashOf(prev, x) # hashOf(next, x) } }

\* the human-readable diff of two manifests, as a set of <<marker, type, id>>
ManifestDiff(prev, next) ==
  LET ids(m) == { <<m[i][1], m[i][2]>> : i \in 1..Len(m) }
      hashOf(m, e) == m[CHOOSE i \in 1..Len(m) : <<m[i][1], m[i][2]>> = e][3]
  IN { <<"+ added", e[1], e[2]>> : e \in ids(next) \ ids(prev) }
       \cup { <<"- removed", e[1], e[2]>> : e \in ids(prev) \ ids(next) }
       \cup { <<"+- changed", e[1], e[2]>> :
                e \in { x \in ids(prev) \cap ids(next) :
                          hashOf(prev, x) # hashOf(next, x) } }

(***************************************************************************)
(* computeManifest.js: computeManifest.  The function is modelled as the    *)
(* list of steps it takes on the manifest constructor, in program order; a  *)
(* step is an update() call or a throw.  RunSteps plays them against the    *)
(* constructor and stops at the first throw or failed assertion.            *)
(***************************************************************************)
UpdateStep(type, id, hash, meta) ==
  [op |-> "update", type |-> type, id |-> id, hash |-> hash, meta |-> meta]

ThrowStep(msg) == [op |-> "throw", msg |-> msg]

\* copyLineOverIfMetaIsSame() returned true: the previous line is taken over
CopyStep(type, id, hash, meta) ==
  [op |-> "copy", type |-> type, id |-> id, hash |-> hash, meta |-> meta]

Falsy(obj, field) == ~Has(obj, field) \/ obj[field] = FALSE

IsFalse(obj, field) == Has(obj, field) /\ obj[field] = FALSE

\* lines 258-265: the task a runsAfter entry refers to
RunsAfterKey(tasks, task, otherTaskName) ==
  LET isTopLevel ==
        runType(getTaskConfig(tasks.config, task.taskDir, otherTaskName)) = "top-level"
  IN [isTopLevel |-> isTopLevel,
      key |-> getTaskKey(tasks.config,
                IF isTopLevel THEN tasks.config.workspaceRoot ELSE task.taskDir,
                otherTaskName)]

\* the loop over runsAfter passing over every task that is not in the graph
RunsAfterSteps_skipMissing(tasks, task, entry) ==
  LET depConfig == entry[2]
      r == RunsAfterKey(tasks, task, entry[1])
      exists == r.key \in DOMAIN tasks.allTasks
  IN IF Falsy(depConfig, "inheritsInput") /\ IsFalse(depConfig, "usesOutput") THEN <<>>
     ELSE IF ~exists THEN <<>>
     ELSE IF ~Falsy(depConfig, "inheritsInput")
       THEN IF tasks.allTasks[r.key].inputManifestCacheKey = NoKey
              THEN <<ThrowStep("Missing inputManifestCacheKey")>>
              ELSE <<UpdateStep("upstream task inputs", r.key,
                       tasks.allTasks[r.key].inputManifestCacheKey, <<>>)>>
     ELSE <<>>

\* lines 256-279, one iteration of the loop over runsAfter
RunsAfterSteps(tasks, task, entry) ==
  LET otherTaskName == entry[1]
      depConfig == entry[2]
      r == RunsAfterKey(tasks, task, otherTaskName)
      exists == r.key \in DOMAIN tasks.allTasks
  IN IF Falsy(depConfig, "inheritsInput") /\ IsFalse(depConfig, "usesOutput") THEN <<>>
     ELSE IF r.isTopLevel /\ ~exists THEN <<ThrowStep("Missing task")>>
     ELSE IF ~exists THEN <<>>
     ELSE IF ~Falsy(depConfig, "inheritsInput")
       THEN IF tasks.allTasks[r.key].inputManifestCacheKey = NoKey
              THEN <<ThrowStep("Missing inputManifestCacheKey")>>
              ELSE <<UpdateStep("upstream task inputs", r.key,
                       tasks.allTasks[r.key].inputManifestCacheKey, <<>>)>>
     ELSE <<>>

\* the loop over runsAfter pushing the output files of every upstream task
RunsAfterExtraFiles_all(tasks, task, entry) ==
  LET r == RunsAfterKey(tasks, task, entry[1])
  IN IF r.key \notin DOMAIN tasks.allTasks THEN <<>>
     ELSE tasks.allTasks[r.key].outputFiles

\* lines 276-278: the output files an entry adds to extraFiles
RunsAfterExtraFiles(tasks, task, entry) ==
  LET depConfig == entry[2]
      r == RunsAfterKey(tasks, task, entry[1])
  IN IF Falsy(depConfig, "inheritsInput") /\ IsFalse(depConfig, "usesOutput") THEN <<>>
     ELSE IF r.key \notin DOMAIN tasks.allTasks THEN <<>>
     ELSE IF ~IsFalse(depConfig, "usesOutput") THEN tasks.allTasks[r.key].outputFiles
     ELSE <<>>

\* lines 286-292: the task keys of the local dependencies, sorted
upstreamTaskKeys(tasks, task) ==
  SortStrings([ i \in 1..Len(task.packageDetails.localDeps) |->
    getTaskKey(tasks.config,
      tasks.config.repoDetails.packagesByName[task.packageDetails.localDeps[i]].dir,
      task.taskName) ])

\* the loop over upstreamTaskKeys without the update() of line 301
PackageInputSteps_none(tasks, key) ==
  IF key \notin DOMAIN tasks.allTasks THEN <<>>
  ELSE IF tasks.allTasks[key].inputManifestCacheKey = NoKey
    THEN <<ThrowStep("Missing inputManifestCacheKey")>>
  ELSE <<>>

\* lines 294-302, one iteration of the loop over upstreamTaskKeys
PackageInputSteps(tasks, key) ==
  IF key \notin DOMAIN tasks.allTasks THEN <<>>
  ELSE IF tasks.allTasks[key].inputManifestCacheKey = NoKey
    THEN <<ThrowStep("Missing inputManifestCacheKey")>>
  ELSE <<UpdateStep("upstream package inputs", key,
           tasks.allTasks[key].inputManifestCacheKey, <<>>)>>

\* the condition of lines 281-284 without the test of the runType
InheritsFromDependencies_anyRunType(task) ==
  /\ cache(task.taskConfig).inheritsInputFromDependencies
  /\ Has(task.packageDetails, "localDeps")

\* lines 281-304
InheritsFromDependencies(task) ==
  /\ runType(task.taskConfig) # "independent"
  /\ cache(task.taskConfig).inheritsInputFromDependencies
  /\ Has(task.packageDetails, "localDeps")

\* the task's own envInputs alone
allEnvVars_taskOnly(tasks, task) ==
  SortStrings(Uniq(cache(task.taskConfig).envInputs))

\* lines 306-310
allEnvVars(tasks, task) ==
  SortStrings(Uniq(getBaseCacheConfig(tasks.config, task.taskDir).envInputs
                     \o cache(task.taskConfig).envInputs))

\* the loop over the input files with the time of the run as metadata
FileSteps_now(prev, file) ==
  LET timestamp == <<runNo>>
      copy == CopyableLines(prev, "file", file, timestamp)
  IN IF copy # {}
       THEN <<CopyStep("file", file, prev[CHOOSE i \in copy : TRUE][3], timestamp)>>
       ELSE <<UpdateStep("file", file, hashFile(file), timestamp)>>

\* the loop over the input files without the fast path: every file is hashed
FileSteps_rehash(prev, file) ==
  <<UpdateStep("file", file, hashFile(file), <<files[file].mtime>>)>>

\* lines 326-339, one iteration of the loop over the input files
FileSteps(prev, file) ==
  LET timestamp == <<files[file].mtime>>
      copy == CopyableLines(prev, "file", file, timestamp)
  IN IF copy # {}
       THEN <<CopyStep("file", file, prev[CHOOSE i \in copy : TRUE][3], timestamp)>>
       ELSE <<UpdateStep("file", file, hashFile(file), timestamp)>>

\* lines 254-279: the extraFiles the loop over runsAfter collects
ExtraFiles(tasks, task) ==
  LET ra == runsAfter(task.taskConfig)
  IN Flat([ i \in 1..Len(ra) |-> RunsAfterExtraFiles(tasks, task, ra[i]) ])

ManifestSteps(tasks, task) ==
  LET ra == runsAfter(task.taskConfig)
      extraFiles == ExtraFiles(tasks, task)
      keys == IF InheritsFromDependencies(task)
                THEN upstreamTaskKeys(tasks, task) ELSE <<>>
      vars_ == allEnvVars(tasks, task)
      inputs == SortStrings(getInputFiles(tasks, task, extraFiles))
      prev == PreviousLines(getManifestPath(task.taskConfig))
  IN Flat([ i \in 1..Len(ra) |-> RunsAfterSteps(tasks, task, ra[i]) ])
       \o Flat([ i \in 1..Len(keys) |-> PackageInputSteps(tasks, keys[i]) ])
       \o [ i \in 1..Len(vars_) |->
              UpdateStep("env var", vars_[i],
                hashString(EnvValue(env, vars_[i])), <<>>) ]
       \o Flat([ i \in 1..Len(inputs) |-> FileSteps(prev, inputs[i]) ])

\* numHashed (lines 318, 336): the files whose content the build hashes
HashedFiles(steps) ==
  { steps[i].id : i \in { n \in 1..Len(steps) :
                            steps[n].op = "update" /\ steps[n].type = "file" } }

\* the constructor after the steps: the lines appended and the error thrown
RECURSIVE RunSteps(_, _)
RunSteps(steps, lines) ==
  IF steps = <<>> THEN [lines |-> lines, error |-> "null"]
  ELSE LET st == Head(steps)
       IN IF st.op = "throw" THEN [lines |-> lines, error |-> st.msg]
          ELSE IF lines # <<>> /\ ~InOrder(lines[Len(lines)], st.type, st.id)
            THEN [lines |-> lines, error |-> "Manifest entries out of order"]
          ELSE RunSteps(Tail(steps),
                 Append(lines, Line(st.type, st.id, st.hash, st.meta)))

\* computeManifest without the assignment of line 352
computeManifest_noKey(tasks, task) ==
  IF IsNone(cache(task.taskConfig)) THEN [result |-> "null"]
  ELSE LET r == RunSteps(ManifestSteps(tasks, task), <<>>)
           prevPath == getManifestPath(task.taskConfig)
       IN IF r.error # "null" THEN [result |-> "throw", msg |-> r.error]
          ELSE [result |-> "built",
                lines |-> r.lines,
                hash |-> NoKey,
                didChange |-> ManifestHash(r.lines) # ManifestHash(PreviousLines(prevPath))]

\* computeManifest reporting a manifest that has lines as unchanged
computeManifest_sameIfAny(tasks, task) ==
  IF IsNone(cache(task.taskConfig)) THEN [result |-> "null"]
  ELSE LET r == RunSteps(ManifestSteps(tasks, task), <<>>)
           prevPath == getManifestPath(task.taskConfig)
       IN IF r.error # "null" THEN [result |-> "throw", msg |-> r.error]
          ELSE [result |-> "built",
                lines |-> r.lines,
                hash |-> ManifestHash(r.lines),
                didChange |-> Len(r.lines) # Len(PreviousLines(prevPath))]

\* computeManifest without the early return of line 232
computeManifest_noEarlyReturn(tasks, task) ==
  LET t == [task EXCEPT !.taskConfig =
              TaskConfig(task.taskDir, task.taskName, EmptyObject)]
      r == RunSteps(ManifestSteps(tasks, t), <<>>)
      prevPath == getManifestPath(t.taskConfig)
  IN IF r.error # "null" THEN [result |-> "throw", msg |-> r.error]
     ELSE [result |-> "built",
           lines |-> r.lines,
           hash |-> ManifestHash(r.lines),
           didChange |-> ManifestHash(r.lines) # ManifestHash(PreviousLines(prevPath))]

\* the outcome of computeManifest({tasks, task}): null for an uncacheable
\* task, an exception, or the manifest handed to end() with its result
computeManifest(tasks, task) ==
  IF IsNone(cache(task.taskConfig)) THEN [result |-> "null"]
  ELSE LET r == RunSteps(ManifestSteps(tasks, task), <<>>)
           prevPath == getManifestPath(task.taskConfig)
       IN IF r.error # "null" THEN [result |-> "throw", msg |-> r.error]
          ELSE [result |-> "built",
                lines |-> r.lines,
                hash |-> ManifestHash(r.lines),
                didChange |-> ManifestHash(r.lines) # ManifestHash(PreviousLines(prevPath))]

(***************************************************************************)
(* TaskGraph.js: construction of the graph.                                 *)
(***************************************************************************)
Filters == { <<>>, <<"packages/core">>, <<"docs">> }

Requests ==
  { [taskName |-> "build", filterPaths |-> f, force |-> b] :
      f \in Filters, b \in BOOLEAN }

\* the invocations considered for a workspace
RequestsOf(sc) ==
  IF sc \in {"sharedOut", "cyclic", "envGated", "twoRootConfigs",
             "twoPkgConfigs", "unsortedNone", "dupDeps", "slugClash",
             "serial", "forceOnce", "filterOnce", "localAfter", "ownConfig"}
    THEN { [taskName |-> "build", filterPaths |-> <<>>, force |-> FALSE] }
  ELSE IF sc \in {"noOutput", "baseOutput"}
    THEN { [taskName |-> "build", filterPaths |-> <<>>, force |-> TRUE] }
    ELSE Requests

\* a package matches a filter path that is its directory or an ancestor of it
FilterMatches(dir, filterPaths) ==
  \/ filterPaths = <<>>
  \/ \E i \in 1..Len(filterPaths) : filterPaths[i] \in {dir, "packages"}

Node(taskName, taskDir) == [taskName |-> taskName, taskDir |-> taskDir]

\* Resolution: the nodes of a requested task
RequestedNodes(config, requestedTask) ==
  IF runType(getTaskConfig(config, config.workspaceRoot, requestedTask.taskName))
       = "top-level"
    THEN { Node(requestedTask.taskName, config.workspaceRoot) }
    ELSE { Node(requestedTask.taskName, config.repoDetails.packagesByName[p].dir) :
             p \in { q \in DOMAIN config.repoDetails.packagesByName :
                       FilterMatches(config.repoDetails.packagesByName[q].dir,
                                     requestedTask.filterPaths) } }

\* the single workspace-root nodes of the top-level tasks a node runs after
TopLevelTargets(config, n) ==
  LET ra == runsAfter(getTaskConfig(config, n.taskDir, n.taskName))
  IN { Node(ra[i][1], config.workspaceRoot) :
         i \in { j \in 1..Len(ra) :
                   runType(getTaskConfig(config, n.taskDir, ra[j][1])) = "top-level" } }

RECURSIVE CloseNodes(_, _)
CloseNodes(config, nodes) ==
  LET more == nodes \cup UNION { TopLevelTargets(config, n) : n \in nodes }
  IN IF more = nodes THEN nodes ELSE CloseNodes(config, more)

GraphNodes(config, requestedTask) ==
  CloseNodes(config, RequestedNodes(config, requestedTask))

PackageIn(config, dir) ==
  { p \in DOMAIN config.repoDetails.packagesByName :
      config.repoDetails.packagesByName[p].dir = dir }

packageDetails(config, dir) ==
  IF PackageIn(config, dir) = {} THEN EmptyObject
  ELSE config.repoDetails.packagesByName[CHOOSE p \in PackageIn(config, dir) : TRUE]

\* the edges of the package dependencies alone
UpstreamNodes_depsOnly(config, nodes, n) ==
  LET tc == getTaskConfig(config, n.taskDir, n.taskName)
      pd == packageDetails(config, n.taskDir)
  IN (IF runType(tc) = "dependent" /\ Has(pd, "localDeps")
        THEN { Node(n.taskName, config.repoDetails.packagesByName[pd.localDeps[i]].dir) :
                 i \in 1..Len(pd.localDeps) }
        ELSE {}) \cap nodes

\* Edges: the nodes a node waits for
UpstreamNodes(config, nodes, n) ==
  LET tc == getTaskConfig(config, n.taskDir, n.taskName)
      pd == packageDetails(config, n.taskDir)
      ra == runsAfter(tc)
      deps == IF runType(tc) = "dependent" /\ Has(pd, "localDeps")
                THEN { Node(n.taskName, config.repoDetails.packagesByName[pd.localDeps[i]].dir) :
                         i \in 1..Len(pd.localDeps) }
                ELSE {}
      after == { IF runType(getTaskConfig(config, n.taskDir, ra[i][1])) = "top-level"
                   THEN Node(ra[i][1], config.workspaceRoot)
                   ELSE Node(ra[i][1], n.taskDir) : i \in 1..Len(ra) }
  IN (deps \cup after) \cap nodes

KeyOf(config, n) == getTaskKey(config, n.taskDir, n.taskName)

ScheduledTask(config, nodes, requestedTask, n) ==
  [key |-> KeyOf(config, n),
   taskName |-> n.taskName,
   taskDir |-> n.taskDir,
   taskConfig |-> getTaskConfig(config, n.taskDir, n.taskName),
   packageDetails |-> packageDetails(config, n.taskDir),
   upstreamKeys |-> { KeyOf(config, u) : u \in UpstreamNodes(config, nodes, n) },
   force |-> requestedTask.force,
   status |-> "pending",
   inputManifestCacheKey |-> NoKey,
   outputFiles |-> <<>>]

\* new TaskGraph({config, requestedTasks}).allTasks
NewAllTasks(config, requestedTask) ==
  LET nodes == GraphNodes(config, requestedTask)
      byKey(k) == CHOOSE n \in nodes : KeyOf(config, n) = k
  IN [ k \in { KeyOf(config, n) : n \in nodes } |->
         ScheduledTask(config, nodes, requestedTask, byKey(k)) ]

\* the orders in which the nodes of a graph may be enumerated
Enumerations(keys) == { s \in [1..Cardinality(keys) -> keys] : Range(s) = keys }

\* the nodes, in the order of enum, that wait for no node of remaining
ReadyIn(tasks, enum, remaining) ==
  SelectSeq(enum, LAMBDA k : k \in remaining
                              /\ tasks[k].upstreamKeys \cap remaining = {})

\* the first ready node in the order of enumeration
NextKey_first(ready) == Head(ready)

\* the ready node the sort visits next: the one with the least task key
NextKey(ready) == Head(SortStrings(ready))

RECURSIVE SortFrom(_, _, _, _)
SortFrom(tasks, enum, remaining, sorted) ==
  IF remaining = {} THEN [keys |-> sorted, cycle |-> {}]
  ELSE LET ready == ReadyIn(tasks, enum, remaining)
       IN IF ready = <<>> THEN [keys |-> sorted, cycle |-> remaining]
          ELSE SortFrom(tasks, enum, remaining \ {NextKey(ready)},
                        Append(sorted, NextKey(ready)))

\* the sort that never reports a cycle: the nodes it could not order are left out
topologicalSort_noCycle(tasks, enum) ==
  [keys |-> SortFrom(tasks, enum, DOMAIN tasks, <<>>).keys, cycle |-> {}]

\* sortedTaskKeys, or the nodes that a cycle keeps from being ordered
topologicalSort(tasks, enum) == SortFrom(tasks, enum, DOMAIN tasks, <<>>)

ConfigTable == [ sc \in AnyScenarioNames \cup FilteredNames |-> ConfigOf(sc) ]

\* the TaskGraph object handed to computeManifest
Tasks == [config |-> ConfigTable[scenario], allTasks |-> allTasks]

(***************************************************************************)
(* TaskGraph.js: the scheduler (runAllTasks) and the runner of one task.    *)
(***************************************************************************)
Terminal(status) == status \in {"success:eager", "success:lazy", "failure", "skipped"}

Succeeded(status) == status \in {"success:eager", "success:lazy"}

allRunningTasks == { k \in DOMAIN allTasks : allTasks[k].status = "running" }

allFailedTasks == { k \in DOMAIN allTasks : allTasks[k].status = "failure" }

\* a task taken up whatever its own status is
Ready_anyStatus(k) ==
  \A u \in allTasks[k].upstreamKeys : Terminal(allTasks[u].status)

\* a task is taken up once none of its upstream tasks is pending or running
Ready(k) ==
  /\ allTasks[k].status = "pending"
  /\ \A u \in allTasks[k].upstreamKeys : Terminal(allTasks[u].status)

\* the worker pool alone: any task may run with any other
MayRunNow_pool(k) == Cardinality(allRunningTasks) < MaxConcurrent

\* the commands that may run at the same time: a free worker of the pool,
\* tasks whose parallel flag is true, and a task with parallel: false alone
MayRunNow(k) ==
  /\ Cardinality(allRunningTasks) < MaxConcurrent
  /\ allRunningTasks # {} =>
        /\ parallel(allTasks[k].taskConfig)
        /\ \A j \in allRunningTasks : parallel(allTasks[j].taskConfig)

\* step 1 of the walk: a task with a failed upstream task is skipped
ShouldSkip(k) == \E u \in allTasks[k].upstreamKeys : allTasks[u].status = "failure"

\* step 4 of the walk: the cache decision
CacheMiss(task, didHaveManifest, didChange) ==
  task.force \/ ~didHaveManifest \/ didChange

\* renameSync(from, to) in a .lazy directory
Rename(lf, from, to) ==
  IF from \notin DOMAIN lf THEN lf
  ELSE [ p \in (DOMAIN lf \ {from}) \cup {to} |-> IF p = to THEN lf[from] ELSE lf[p] ]

\* on success the .next manifest replaces the manifest
Commit(lf, task) ==
  Rename(lf, getNextManifestPath(task.taskConfig), getManifestPath(task.taskConfig))

\* ManifestConstructor.end(): writes the .next manifest and the diff
End(lf, task, lines) ==
  (getNextManifestPath(task.taskConfig) :> lines)
    @@ (getDiffPath(task.taskConfig) :>
          ManifestDiff(PreviousLines(getManifestPath(task.taskConfig)), lines))
    @@ lf

\* the task command writes its output file
WriteOutput(fs, path) ==
  IF path = "null" THEN fs
  ELSE [fs EXCEPT ![path] = [present |-> TRUE,
                             content |-> 1 + (fs[path].content % 2),
                             mtime |-> fs[path].mtime + 1]]

\* the written file is an input of a task whose manifest is already built
WroteInput(fs, path) ==
  /\ path # "null"
  /\ \E j \in DOMAIN allTasks :
       /\ allTasks[j].inputManifestCacheKey # NoKey
       /\ path \in InputFilesIn(fs, Tasks, allTasks[j], ExtraFiles(Tasks, allTasks[j]))

NoRun == [ran |-> FALSE, succeeded |-> FALSE, wroteInput |-> FALSE, failed |-> {},
          filterPaths |-> <<>>,
          exitStatus |-> -1, fatal |-> "null", sortedTaskKeys |-> <<>>]

FreshRun(e) ==
  [spawned |-> {}, wroteInput |-> FALSE, hashed |-> {},
   edits |-> { x \in e : x[1] # "env" },
   envEdits |-> { <<x[2], x[3]>> : x \in { y \in e : y[1] = "env" } }]

Summary ==
  [ran |-> TRUE,
   succeeded |-> \A k \in DOMAIN allTasks : Succeeded(allTasks[k].status),
   wroteInput |-> thisRun.wroteInput,
   failed |-> allFailedTasks,
   filterPaths |-> request.filterPaths,
   exitStatus |-> exitStatus, fatal |-> fatal,
   sortedTaskKeys |-> sortedTaskKeys]

InitIn(names) ==
  /\ scenario \in names
  /\ files = [ path \in AllPaths |->
                 [present |-> path \in InitiallyPresent(scenario),
                  content |-> 1, mtime |-> 1] ]
  /\ env = EmptyObject
  /\ lazyFiles = EmptyObject
  /\ phase = "idle"
  /\ runNo = 0
  /\ request \in RequestsOf(scenario)
  /\ allTasks = EmptyObject
  /\ sortedTaskKeys = <<>>
  /\ exitStatus = -1
  /\ fatal = "null"
  /\ edits = {}
  /\ atStart = [files |-> files, lazyFiles |-> lazyFiles]
  /\ thisRun = FreshRun({})
  /\ lastRun = NoRun

Init == InitIn(ScenarioNames)

\* the workspaces with clashing task names included
InitAnyNames == InitIn(AnyScenarioNames)

InitFiltered == InitIn(ScenarioNames \cup FilteredNames)

\* the invocations of the workspace that are considered
RunBound ==
  IF scenario \in {"envGated", "forceOnce", "filterOnce"} THEN MaxEnvRuns ELSE MaxRuns

\* the command lines of the invocations of a workspace: the same request
\* every time, in forceOnce with or without --force, in filterOnce with or
\* without a filter path
RunRequests ==
  IF scenario = "forceOnce"
    THEN { [request EXCEPT !.force = f] : f \in BOOLEAN }
  ELSE IF scenario = "filterOnce"
    THEN { [request EXCEPT !.filterPaths = f] : f \in {<<>>, <<"packages/core">>} }
    ELSE { request }

\* run.js: run(), up to the call of runAllTasks
StartRun(requestedTask) ==
  /\ phase = "idle"
  /\ runNo < RunBound
  /\ IF Has(ConfigTable[scenario], "exit")
       THEN /\ allTasks' = EmptyObject
            /\ sortedTaskKeys' = <<>>
            /\ phase' = "idle" /\ exitStatus' = 1
            /\ fatal' = "Found multiple lazy config files"
       ELSE
     LET tasks == NewAllTasks(ConfigTable[scenario], requestedTask)
     IN \E enum \in Enumerations(DOMAIN tasks) :
          LET sorted == topologicalSort(tasks, enum)
          IN IF sorted.cycle # {}
               THEN /\ allTasks' = EmptyObject
                    /\ sortedTaskKeys' = <<>>
                    /\ phase' = "idle" /\ exitStatus' = 1
                    /\ fatal' = "Cycle in task graph"
               ELSE /\ allTasks' = tasks
                    /\ sortedTaskKeys' = sorted.keys
                    /\ fatal' = "null"
                    /\ IF Len(sorted.keys) = 0
                         THEN phase' = "idle" /\ exitStatus' = 1
                         ELSE phase' = "running" /\ exitStatus' = -1
  /\ runNo' = runNo + 1
  /\ lastRun' = IF runNo = 0 THEN NoRun ELSE Summary
  /\ thisRun' = FreshRun(edits)
  /\ edits' = {}
  /\ atStart' = [files |-> files, lazyFiles |-> lazyFiles]
  /\ request' = requestedTask
  /\ UNCHANGED << scenario, files, env, lazyFiles >>

\* the scheduler skips a task whose upstream task failed
SkipTask(k) ==
  /\ phase = "running"
  /\ Ready(k)
  /\ ShouldSkip(k)
  /\ allTasks' = [allTasks EXCEPT ![k].status = "skipped"]
  /\ UNCHANGED << scenario, sortedTaskKeys, files, env, lazyFiles, phase, runNo, request,
                  exitStatus, fatal, edits, atStart, thisRun, lastRun >>

\* the scheduler takes up a task: manifest, cache decision, spawn or cache hit
StartTask(k) ==
  /\ phase = "running"
  /\ Ready(k)
  /\ ~ShouldSkip(k)
  /\ MayRunNow(k)
  /\ LET task == allTasks[k]
         m == computeManifest(Tasks, task)
         didHaveManifest == getManifestPath(task.taskConfig) \in DOMAIN lazyFiles
         hashed == IF IsNone(cache(task.taskConfig)) THEN {}
                   ELSE { <<k, f>> : f \in HashedFiles(ManifestSteps(Tasks, task)) }
     IN CASE m.result = "null" ->
               /\ allTasks' = [allTasks EXCEPT ![k].status = "running"]
               /\ thisRun' = [thisRun EXCEPT !.spawned = @ \cup {k}]
               /\ UNCHANGED << lazyFiles, phase, exitStatus, fatal >>
          [] m.result = "throw" ->
               /\ allTasks' = [allTasks EXCEPT ![k].status = "running"]
               /\ phase' = "idle"
               /\ exitStatus' = 1
               /\ fatal' = m.msg
               /\ UNCHANGED << lazyFiles, thisRun >>
          [] m.result = "built" /\ CacheMiss(task, didHaveManifest, m.didChange) ->
               /\ allTasks' = [allTasks EXCEPT ![k].status = "running",
                                               ![k].inputManifestCacheKey = m.hash]
               /\ lazyFiles' = End(lazyFiles, task, m.lines)
               /\ thisRun' = [thisRun EXCEPT !.spawned = @ \cup {k},
                                             !.hashed = @ \cup hashed]
               /\ UNCHANGED << phase, exitStatus, fatal >>
          [] OTHER ->
               /\ allTasks' = [allTasks EXCEPT ![k].status = "success:lazy",
                                               ![k].inputManifestCacheKey = m.hash,
                                               ![k].outputFiles = getOutputFiles(files, task)]
               /\ lazyFiles' = Commit(End(lazyFiles, task, m.lines), task)
               /\ thisRun' = [thisRun EXCEPT !.hashed = @ \cup hashed]
               /\ UNCHANGED << phase, exitStatus, fatal >>
  /\ UNCHANGED << scenario, sortedTaskKeys, files, env, runNo, request, edits, atStart, lastRun >>

\* the command of a running task exits
ExitTask(k, code) ==
  /\ phase = "running"
  /\ allTasks[k].status = "running"
  /\ LET task == allTasks[k]
         out == CommandOutput(scenario, task.taskName, task.taskDir)
         fs == WriteOutput(files, out)
     IN IF code = 0
          THEN /\ files' = fs
               /\ lazyFiles' = Commit(lazyFiles, task)
               /\ allTasks' = [allTasks EXCEPT ![k].status = "success:eager",
                                               ![k].outputFiles = getOutputFiles(fs, task)]
               /\ thisRun' = [thisRun EXCEPT !.wroteInput = @ \/ WroteInput(fs, out)]
          ELSE /\ allTasks' = [allTasks EXCEPT ![k].status = "failure"]
               /\ UNCHANGED << files, lazyFiles, thisRun >>
  /\ UNCHANGED << scenario, sortedTaskKeys, env, phase, runNo, request, exitStatus, fatal,
                  edits, atStart, lastRun >>

\* the failed tasks reported only when no task succeeded
ExitCode_allFailed(failedTasks) ==
  IF failedTasks # {} /\ failedTasks = DOMAIN allTasks THEN 1 ELSE 0

\* run.js lines 45-49: logger.fail() exits with status 1
ExitCode(failedTasks) == IF Cardinality(failedTasks) > 0 THEN 1 ELSE 0

\* run.js: run(), after runAllTasks has returned
EndRun ==
  /\ phase = "running"
  /\ \A k \in DOMAIN allTasks : Terminal(allTasks[k].status)
  /\ phase' = "idle"
  /\ exitStatus' = ExitCode(allFailedTasks)
  /\ UNCHANGED << scenario, sortedTaskKeys, files, env, lazyFiles, runNo, request, allTasks,
                  fatal, edits, atStart, thisRun, lastRun >>

(***************************************************************************)
(* The user, between two invocations.                                      *)
(***************************************************************************)
Contents == {1, 2}

Editable ==
  IF scenario \in {"envGated", "noOutput", "baseOutput", "slugClash", "serial",
                  "forceOnce", "filterOnce", "localAfter", "ownConfig"}
    THEN {}
  ELSE { PathOf(PkgDir(p), n) : p \in Range(ScenarioPkgs(scenario)),
                                n \in {"index.js", "new-file.txt"} }

\* the user changes one file between two invocations, after an invocation
\* that returned 0 (the harness throws on any other exit status)
CanEdit ==
  /\ phase = "idle"
  /\ 0 < runNo /\ runNo < MaxRuns
  /\ exitStatus = 0
  /\ edits = {}

\* what a write does to the file: writeFileSync of new or old content
EditKind(path, content) ==
  IF ~files[path].present THEN "added"
  ELSE IF files[path].content = content THEN "touched" ELSE "modified"

WriteFile(path, content) ==
  /\ CanEdit
  /\ path \in Editable
  /\ files[path].present \/ content = 1
  /\ files' = [files EXCEPT ![path] = [present |-> TRUE, content |-> content,
                                       mtime |-> files[path].mtime + 1]]
  /\ edits' = edits \cup {<<path, EditKind(path, content)>>}
  /\ UNCHANGED << scenario, sortedTaskKeys, env, lazyFiles, phase, runNo, request, allTasks,
                  exitStatus, fatal, atStart, thisRun, lastRun >>

RemoveFile(path) ==
  /\ CanEdit
  /\ path \in Editable
  /\ files[path].present
  /\ files' = [files EXCEPT ![path].present = FALSE]
  /\ edits' = edits \cup {<<path, "deleted">>}
  /\ UNCHANGED << scenario, sortedTaskKeys, env, lazyFiles, phase, runNo, request, allTasks,
                  exitStatus, fatal, atStart, thisRun, lastRun >>

EnvNames == {"CI", "NODE_ENV"}

EnvValues == {"", "1"}

\* the user changes one environment variable between two invocations
CanSetEnv ==
  /\ scenario = "envGated"
  /\ phase = "idle"
  /\ 0 < runNo /\ runNo < MaxEnvRuns
  /\ edits = {}

EnvEditKind(name, value) ==
  IF EnvValue(env, name) = value THEN "same" ELSE "changed"

SetEnv(name, value) ==
  /\ CanSetEnv
  /\ IF Has(env, name) THEN env[name] # value ELSE TRUE
  /\ env' = (name :> value) @@ env
  /\ edits' = edits \cup {<<"env", name, EnvEditKind(name, value)>>}
  /\ UNCHANGED << scenario, sortedTaskKeys, files, lazyFiles, phase, runNo,
                  request, allTasks, exitStatus, fatal, atStart, thisRun, lastRun >>

UnsetEnv(name) ==
  /\ CanSetEnv
  /\ Has(env, name)
  /\ env' = [ n \in DOMAIN env \ {name} |-> env[n] ]
  /\ edits' = edits \cup {<<"env", name, EnvEditKind(name, "")>>}
  /\ UNCHANGED << scenario, sortedTaskKeys, files, lazyFiles, phase, runNo,
                  request, allTasks, exitStatus, fatal, atStart, thisRun, lastRun >>

TaskKeys == { n \o "::" \o d : n \in {"build", "codegen", "Codegen", "prep"},
                               d \in {"<rootDir>"} \cup { PkgDir(p) : p \in AllPkgs } }

Next ==
  \/ \E r \in RunRequests : StartRun(r)
  \/ \E k \in TaskKeys : k \in DOMAIN allTasks /\ SkipTask(k)
  \/ \E k \in TaskKeys : k \in DOMAIN allTasks /\ StartTask(k)
  \/ \E k \in TaskKeys, code \in {0, 1} : k \in DOMAIN allTasks /\ ExitTask(k, code)
  \/ EndRun
  \/ \E path \in AllPaths, content \in Contents : WriteFile(path, content)
  \/ \E path \in AllPaths : RemoveFile(path)
  \/ \E name \in EnvNames, value \in EnvValues : SetEnv(name, value)
  \/ \E name \in EnvNames : UnsetEnv(name)

Spec == Init /\ [][Next]_vars

SpecAnyNames == InitAnyNames /\ [][Next]_vars

SpecFiltered == InitFiltered /\ [][Next]_vars

\* Weak fairness of the steps of runAllTasks and of the exit of the spawned
\* commands.  For SkipTask, StartTask and ExitTask it is written out: the
\* guard of the action for some task, and the effect of its step on allTasks.
StepEnabled ==
  /\ phase = "running"
  /\ \/ \E k \in DOMAIN allTasks : Ready(k) /\ ShouldSkip(k)
     \/ \E k \in DOMAIN allTasks : Ready(k) /\ ~ShouldSkip(k) /\ MayRunNow(k)
     \/ allRunningTasks # {}

TaskStep ==
  /\ phase = "running"
  /\ \E k \in DOMAIN allTasks : allTasks'[k].status # allTasks[k].status

\* the scheduler goes on while it can and every spawned command exits
SpecLive ==
  /\ Spec
  /\ WF_vars(EndRun)
  /\ ([]<>~StepEnabled \/ []<><<TaskStep>>_vars)

(***************************************************************************)
(* Vocabulary of the properties.                                           *)
(***************************************************************************)
Scheduled == DOMAIN allTasks

Cacheable(k) == ~IsNone(cache(allTasks[k].taskConfig))

ManifestPathOf(k) == getManifestPath(allTasks[k].taskConfig)

NextPathOf(k) == getNextManifestPath(allTasks[k].taskConfig)

DiffPathOf(k) == getDiffPath(allTasks[k].taskConfig)

\* the invocation has returned (normally or by a fatal error)
RunOver == phase = "idle" /\ runNo > 0

\* this is an invocation that follows another one
Rerun == runNo >= 2 /\ lastRun.ran

\* the same path holds the same content now as when the invocation started
SameLazyFile(path) ==
  /\ (path \in DOMAIN lazyFiles) = (path \in DOMAIN atStart.lazyFiles)
  /\ path \in DOMAIN lazyFiles => lazyFiles[path] = atStart.lazyFiles[path]

OutputOf(k) == CommandOutput(scenario, allTasks[k].taskName, allTasks[k].taskDir)

OutputUntouched(k) ==
  OutputOf(k) # "null" => files[OutputOf(k)] = atStart.files[OutputOf(k)]

(***************************************************************************)
(* C1.  Idempotent rerun, as stated: when an invocation follows another     *)
(* one with no change to any file or environment variable in between, it    *)
(* spawns no task command, every task ends success:lazy and every manifest  *)
(* is the one the first invocation wrote.                                   *)
(***************************************************************************)
RerunIsLazy ==
  /\ thisRun.spawned = {}
  /\ RunOver =>
       \A k \in Scheduled :
         /\ allTasks[k].status = "success:lazy"
         /\ SameLazyFile(ManifestPathOf(k))

C1_IdempotentRerun ==
  Rerun /\ thisRun.edits = {} /\ thisRun.envEdits = {} => RerunIsLazy

(***************************************************************************)
(* C1 amended.  The rerun is lazy when the first invocation ran without     *)
(* --force, every scheduled task is cacheable and succeeded in it, and no   *)
(* command of it wrote a file that is an input of a task whose manifest     *)
(* was already built.                                                       *)
(***************************************************************************)
CleanFirstRun ==
  /\ Rerun
  /\ thisRun.edits = {}
  /\ thisRun.envEdits = {}
  /\ ~request.force
  /\ lastRun.succeeded
  /\ ~lastRun.wroteInput
  /\ \A k \in Scheduled : Cacheable(k)

C1_IdempotentRerunAmended == CleanFirstRun => RerunIsLazy

C1_Witness ==
  /\ CleanFirstRun
  /\ RunOver
  /\ Cardinality(Scheduled) >= 2
  /\ \A k \in Scheduled : allTasks[k].status = "success:lazy"
  /\ \E k \in Scheduled : Len(allTasks[k].inputManifestCacheKey[2]) >= 3

(***************************************************************************)
(* Packages and the change made between two invocations.                   *)
(***************************************************************************)
DirectDeps(p) == Range(LocalDeps(scenario, p))

\* the packages p depends on, directly or through other packages
RECURSIVE DepsWithin(_, _)
DepsWithin(ps, n) ==
  IF n = 0 THEN ps
  ELSE DepsWithin(ps \cup UNION { DirectDeps(q) : q \in ps }, n - 1)

TransitiveDeps(p) == DepsWithin(DirectDeps(p), Cardinality(AllPkgs))

ScenarioPackages == Range(ScenarioPkgs(scenario))

TasksOf(p) == { k \in Scheduled : allTasks[k].taskDir = PkgDir(p) }

\* the run follows a run in which every task succeeded
AfterSuccessfulRun == Rerun /\ lastRun.succeeded

\* a file of package p was added, modified or deleted since the last run
InputChangedIn(p) ==
  \E e \in thisRun.edits :
    /\ FileOf(e[1]).dir = PkgDir(p)
    /\ e[2] \in {"added", "modified", "deleted"}

\* the only change since the last run is to files of package p
OnlyChangeIn(p) ==
  /\ thisRun.edits # {}
  /\ thisRun.envEdits = {}
  /\ \A e \in thisRun.edits : FileOf(e[1]).dir = PkgDir(p)

\* a cache miss that is carried out
Missed(k) ==
  /\ allTasks[k].status # "success:lazy"
  /\ RunOver /\ exitStatus = 0 => k \in thisRun.spawned

(***************************************************************************)
(* C2.  Downstream invalidation, as stated: after a successful run, when    *)
(* an input file of package P is added, modified or deleted, the next run   *)
(* misses and re-executes the task of P and of every package that           *)
(* transitively depends on P.                                               *)
(***************************************************************************)
C2_DownstreamInvalidation ==
  \A p \in ScenarioPackages :
    AfterSuccessfulRun /\ InputChangedIn(p) =>
      \A q \in ScenarioPackages :
        (q = p \/ p \in TransitiveDeps(q)) => \A k \in TasksOf(q) : Missed(k)

\* the tasks that take the change of package p into their manifest: the
\* tasks of p, and the tasks that inherit the input of one of these
RECURSIVE InheritingWithin(_, _)
InheritingWithin(ks, n) ==
  IF n = 0 THEN ks
  ELSE InheritingWithin(
         ks \cup { d \in Scheduled :
                     /\ Cacheable(d)
                     /\ InheritsFromDependencies(allTasks[d])
                     /\ Range(upstreamTaskKeys(Tasks, allTasks[d])) \cap ks # {} },
         n - 1)

Invalidated(p) == InheritingWithin(TasksOf(p), Cardinality(AllPkgs))

\* a rebuilt dependent shows the upstream key as a changed entry of its diff
ShowsChangedUpstream(d, ks) ==
  (/\ allTasks[d].inputManifestCacheKey # NoKey
   /\ ManifestPathOf(d) \in DOMAIN atStart.lazyFiles)
  => \A u \in Range(upstreamTaskKeys(Tasks, allTasks[d])) \cap ks :
       <<"+- changed", "upstream package inputs", u>> \in lazyFiles[DiffPathOf(d)]

(***************************************************************************)
(* C2 amended.  After a successful run, when an input file of package P is  *)
(* added, modified or deleted, the next run misses the task of P and every  *)
(* scheduled task reached from it through tasks that inherit the input of   *)
(* their dependencies (runType not independent,                             *)
(* inheritsInputFromDependencies not false, cache not "none"); each such    *)
(* dependent shows the upstream task as a changed 'upstream package         *)
(* inputs' entry.                                                           *)
(***************************************************************************)
C2_DownstreamInvalidationAmended ==
  \A p \in ScenarioPackages :
    AfterSuccessfulRun /\ InputChangedIn(p) =>
      \A k \in Invalidated(p) :
        /\ Missed(k)
        /\ k \notin TasksOf(p) => ShowsChangedUpstream(k, Invalidated(p))

C2_Witness ==
  /\ AfterSuccessfulRun /\ InputChangedIn("utils")
  /\ RunOver /\ exitStatus = 0
  /\ Cardinality(Invalidated("utils")) = 3
  /\ Invalidated("utils") \subseteq thisRun.spawned
  /\ <<"+- changed", "upstream package inputs", "build::packages/core">>
       \in lazyFiles[DiffPathOf("build::packages/app")]
  /\ <<"+- changed", "file", "packages/app/index.js">>
       \notin lazyFiles[DiffPathOf("build::packages/app")]

(***************************************************************************)
(* C3.  Upstream isolation, as stated: after a successful run, when the     *)
(* only change is to files of package D, the next run does not spawn the    *)
(* task of any package D depends on, leaves its output unmodified and ends  *)
(* it as a cache hit.                                                       *)
(***************************************************************************)
Hit(k) ==
  /\ k \notin thisRun.spawned
  /\ OutputUntouched(k)
  /\ Terminal(allTasks[k].status) => allTasks[k].status = "success:lazy"

C3_UpstreamIsolation ==
  \A d \in ScenarioPackages :
    AfterSuccessfulRun /\ OnlyChangeIn(d) =>
      \A u \in TransitiveDeps(d) \ {d} :
        d \notin TransitiveDeps(u) => \A k \in TasksOf(u) : Hit(k)

(***************************************************************************)
(* C3 amended.  The same, for a run without --force, an upstream task that  *)
(* is cacheable, and a previous run in which no command wrote a file that   *)
(* is an input of a task whose manifest was already built.                  *)
(***************************************************************************)
C3_UpstreamIsolationAmended ==
  \A d \in ScenarioPackages :
    AfterSuccessfulRun /\ OnlyChangeIn(d) /\ ~request.force /\ ~lastRun.wroteInput =>
      \A u \in TransitiveDeps(d) \ {d} :
        d \notin TransitiveDeps(u) =>
          \A k \in TasksOf(u) : Cacheable(k) => Hit(k)

C3_Witness ==
  /\ AfterSuccessfulRun /\ OnlyChangeIn("core") /\ InputChangedIn("core")
  /\ ~request.force /\ ~lastRun.wroteInput
  /\ RunOver /\ exitStatus = 0
  /\ "build::packages/utils" \in Scheduled
  /\ allTasks["build::packages/utils"].status = "success:lazy"
  /\ OutputUntouched("build::packages/utils")
  /\ thisRun.spawned = {"build::packages/core"}
  /\ ~OutputUntouched("build::packages/core")

(***************************************************************************)
(* The steps of one task within a run.                                     *)
(***************************************************************************)
\* the task has been taken up: its manifest build has begun
Started(k) == allTasks[k].status \notin {"pending", "skipped"}

\* the step in which the scheduler takes task k up
Begins(k) ==
  /\ k \in DOMAIN allTasks /\ k \in DOMAIN allTasks'
  /\ allTasks[k].status = "pending"
  /\ allTasks'[k].status \notin {"pending", "skipped"}

HasKey(k) == allTasks[k].inputManifestCacheKey # NoKey

HadManifest(k) == ManifestPathOf(k) \in DOMAIN atStart.lazyFiles

ManifestChanged(k) ==
  HadManifest(k) =>
    allTasks[k].inputManifestCacheKey
      # ManifestHash(atStart.lazyFiles[ManifestPathOf(k)])

C5_CacheDecision ==
  \A k \in Scheduled :
    Cacheable(k) /\ HasKey(k) =>
      /\ k \in thisRun.spawned
           <=> (allTasks[k].force \/ ~HadManifest(k) \/ ManifestChanged(k))
      /\ k \notin thisRun.spawned =>
           allTasks[k].status = "success:lazy" /\ OutputUntouched(k)
      /\ k \in thisRun.spawned =>
           allTasks[k].status \in {"running", "success:eager", "failure"}

C5_Witness ==
  /\ RunOver /\ exitStatus = 0 /\ ~request.force
  /\ \E k \in Scheduled :
       /\ Cacheable(k) /\ HasKey(k) /\ HadManifest(k) /\ ManifestChanged(k)
       /\ k \in thisRun.spawned
  /\ \E k \in Scheduled :
       /\ Cacheable(k) /\ HasKey(k) /\ HadManifest(k) /\ ~ManifestChanged(k)
       /\ allTasks[k].status = "success:lazy"

(***************************************************************************)
(* C6.  Failure propagation: a task whose command exits non-zero is marked  *)
(* failure; a task with a failed task anywhere among its transitive         *)
(* upstream tasks is never taken up, its command is never spawned, and it   *)
(* ends the run skipped.                                                    *)
(***************************************************************************)
RECURSIVE UpstreamWithin(_, _)
UpstreamWithin(ks, n) ==
  IF n = 0 THEN ks
  ELSE UpstreamWithin(ks \cup UNION { allTasks[u].upstreamKeys : u \in ks }, n - 1)

TransitiveUpstream(k) ==
  UpstreamWithin(allTasks[k].upstreamKeys, Cardinality(Scheduled))

C6_FailurePropagation ==
  \A k \in Scheduled :
    (\E f \in TransitiveUpstream(k) : allTasks[f].status = "failure") =>
      /\ ~Started(k)
      /\ k \notin thisRun.spawned
      /\ RunOver => allTasks[k].status = "skipped"

(***************************************************************************)
(* C7.  Exit status, as stated: the run exits with status 0 exactly when    *)
(* at least one task matched the request and no task ended in failure.      *)
(***************************************************************************)
C7_ExitStatus ==
  RunOver => (exitStatus = 0 <=> (Scheduled # {} /\ allFailedTasks = {}))

(***************************************************************************)
(* C7 amended.  The run exits with status 0 exactly when at least one task  *)
(* matched the request, no task ended in failure and no fatal error         *)
(* aborted the run; with no task matched, with a failed task and after a    *)
(* fatal error the status is not 0.                                         *)
(***************************************************************************)
C7_ExitStatusAmended ==
  RunOver =>
    /\ exitStatus = 0
         <=> (Scheduled # {} /\ allFailedTasks = {} /\ fatal = "null")
    /\ allFailedTasks # {} => exitStatus # 0
    /\ Scheduled = {} => exitStatus # 0

C7_Witness ==
  /\ RunOver /\ fatal = "null"
  /\ exitStatus # 0
  /\ \E k \in Scheduled : allTasks[k].status = "failure"
  /\ \E k \in Scheduled : allTasks[k].status = "success:lazy"
  /\ \E k \in Scheduled : allTasks[k].status = "success:eager"

(***************************************************************************)
(* C8.  Uncacheable tasks: for a task whose cache is "none" no manifest,    *)
(* .next manifest or diff is ever written, inputManifestCacheKey is never   *)
(* set, the task is never a cache hit and its command is spawned whenever   *)
(* the task is taken up, changed inputs or not.                             *)
(***************************************************************************)
Uncacheable(k) ==
  /\ Has(allTasks[k].taskConfig._config, "cache")
  /\ allTasks[k].taskConfig._config.cache = NONE

C8_Uncacheable ==
  \A k \in Scheduled :
    Uncacheable(k) =>
      /\ ~HasKey(k)
      /\ {ManifestPathOf(k), NextPathOf(k), DiffPathOf(k)} \cap DOMAIN lazyFiles = {}
      /\ allTasks[k].status # "success:lazy"
      /\ Started(k) => k \in thisRun.spawned
      /\ RunOver /\ exitStatus = 0 => k \in thisRun.spawned

C8_Witness ==
  /\ Rerun /\ lastRun.succeeded /\ thisRun.edits = {}
  /\ RunOver /\ exitStatus = 0
  /\ Cardinality(Scheduled) >= 2
  /\ \A k \in Scheduled :
       /\ Uncacheable(k)
       /\ allTasks[k].status = "success:eager"
       /\ k \in thisRun.spawned

(***************************************************************************)
(* C9.  Canonical manifest order: the ordering assertion of the manifest    *)
(* builder never fails, and the entries of every manifest written are       *)
(* non-decreasing under (compareManifestTypes, id).                         *)
(***************************************************************************)
Sorted(lines) ==
  \A i \in 1..(Len(lines) - 1) : InOrder(lines[i], lines[i + 1][1], lines[i + 1][2])

ManifestPaths ==
  UNION { {ManifestPathOf(k), NextPathOf(k)} : k \in Scheduled }

C9_CanonicalOrder ==
  /\ fatal # "Manifest entries out of order"
  /\ \A path \in ManifestPaths \cap DOMAIN lazyFiles : Sorted(lazyFiles[path])

(***************************************************************************)
(* C10.  Manifest commit on success: the built manifest is written to the   *)
(* .next path; while the command runs and after it failed the manifest      *)
(* path holds what it held when the run started; on a cache hit or exit     *)
(* code 0 the built manifest is at the manifest path and the .next path is  *)
(* gone.                                                                    *)
(***************************************************************************)
BuiltLines(k) == allTasks[k].inputManifestCacheKey[2]

C10_CommitOnSuccess ==
  \A k \in Scheduled :
    Cacheable(k) /\ HasKey(k) =>
      /\ allTasks[k].status \in {"running", "failure"} =>
           /\ NextPathOf(k) \in DOMAIN lazyFiles
           /\ lazyFiles[NextPathOf(k)] = BuiltLines(k)
           /\ SameLazyFile(ManifestPathOf(k))
      /\ Succeeded(allTasks[k].status) =>
           /\ ManifestPathOf(k) \in DOMAIN lazyFiles
           /\ lazyFiles[ManifestPathOf(k)] = BuiltLines(k)
           /\ NextPathOf(k) \notin DOMAIN lazyFiles

C10_Witness ==
  /\ Rerun
  /\ \E k \in Scheduled :
       /\ allTasks[k].status = "running" /\ HasKey(k)
       /\ HadManifest(k)
       /\ lazyFiles[ManifestPathOf(k)] = atStart.lazyFiles[ManifestPathOf(k)]
       /\ lazyFiles[NextPathOf(k)] # lazyFiles[ManifestPathOf(k)]
  /\ \E k \in Scheduled :
       /\ allTasks[k].status = "success:eager"
       /\ HadManifest(k)
       /\ lazyFiles[ManifestPathOf(k)] # atStart.lazyFiles[ManifestPathOf(k)]

(***************************************************************************)
(* The diff of a task that was rebuilt against a previous manifest.        *)
(***************************************************************************)
PreviousManifest(k) == atStart.lazyFiles[ManifestPathOf(k)]

\* the hashes a manifest holds for (type, id)
HashesIn(m, type, id) ==
  { m[i][3] : i \in { n \in 1..Len(m) : m[n][1] = type /\ m[n][2] = id } }

EntriesOf(m) == { <<m[i][1], m[i][2]>> : i \in 1..Len(m) }

Markers == {"+ added", "- removed", "+- changed"}

\* the marker the diff owes to an entry, or none
MarkerOwed(prev, next, type, id) ==
  LET p == HashesIn(prev, type, id)
      n == HashesIn(next, type, id)
  IN IF p = {} /\ n # {} THEN {"+ added"}
     ELSE IF p # {} /\ n = {} THEN {"- removed"}
     ELSE IF p # n THEN {"+- changed"}
     ELSE {}

Rebuilt(k) == Cacheable(k) /\ HasKey(k) /\ HadManifest(k)

(***************************************************************************)
(* C11.  Diff content: on a cache miss with a previous manifest the diff    *)
(* holds the line '+ added' for every (type, id) only the new manifest      *)
(* has, '- removed' for every (type, id) only the previous manifest has,    *)
(* '+- changed' for every (type, id) of both with different hashes, and     *)
(* no other line.                                                           *)
(***************************************************************************)
C11_DiffContent ==
  \A k \in Scheduled :
    Rebuilt(k) /\ k \in thisRun.spawned =>
      /\ DiffPathOf(k) \in DOMAIN lazyFiles
      /\ \A line \in lazyFiles[DiffPathOf(k)] :
           /\ line[1] \in Markers
           /\ <<line[2], line[3]>>
                \in EntriesOf(PreviousManifest(k)) \cup EntriesOf(BuiltLines(k))
      /\ \A e \in EntriesOf(PreviousManifest(k)) \cup EntriesOf(BuiltLines(k)) :
           { mk \in Markers : <<mk, e[1], e[2]>> \in lazyFiles[DiffPathOf(k)] }
             = MarkerOwed(PreviousManifest(k), BuiltLines(k), e[1], e[2])

C11_Witness ==
  /\ RunOver /\ exitStatus = 0
  /\ \E k \in thisRun.spawned :
       /\ Rebuilt(k)
       /\ \E e \in EntriesOf(BuiltLines(k)) :
            <<"+ added", e[1], e[2]>> \in lazyFiles[DiffPathOf(k)]
       /\ \E e \in EntriesOf(BuiltLines(k)) :
            MarkerOwed(PreviousManifest(k), BuiltLines(k), e[1], e[2]) = {}
  /\ \E k \in thisRun.spawned :
       /\ Rebuilt(k)
       /\ lazyFiles[DiffPathOf(k)]
            = {<<"+- changed", "upstream package inputs", "build::packages/utils">>}

(***************************************************************************)
(* C12.  Diff/hash agreement: the diff of a rebuilt manifest against the    *)
(* previous one is non-empty exactly when the aggregate hashes differ       *)
(* (didChange), also when only the mtime of a file entry differs.           *)
(***************************************************************************)
C12_DiffHashAgreement ==
  \A k \in Scheduled :
    Rebuilt(k) => (lazyFiles[DiffPathOf(k)] # {} <=> ManifestChanged(k))

(***************************************************************************)
(* Tasks the graph does not order, and the manifest a task would build if   *)
(* the scheduler took it up now instead of when it did.                     *)
(***************************************************************************)
Unordered(k, j) ==
  k # j /\ k \notin TransitiveUpstream(j) /\ j \notin TransitiveUpstream(k)

\* the command of j is running on a manifest that j built
RunningOnManifest(j) == allTasks[j].status = "running" /\ HasKey(j)

\* computeManifest for j gives now the manifest that j built
SameManifestNow(j) ==
  LET m == computeManifest(Tasks, allTasks[j])
  IN /\ m.result = "built"
     /\ m.lines = BuiltLines(j)
     /\ m.hash = allTasks[j].inputManifestCacheKey

(***************************************************************************)
(* C13.  Schedule independence, as stated: while the command of a task is   *)
(* running only tasks that the graph does not order with it make steps,     *)
(* and whatever they have done the task would build the same manifest and   *)
(* the same inputManifestCacheKey if it were taken up now: every            *)
(* interleaving gives every task the same manifest.                         *)
(***************************************************************************)
C13_ScheduleIndependence ==
  \A j \in Scheduled : RunningOnManifest(j) => SameManifestNow(j)

(***************************************************************************)
(* C13 amended.  The same, for runs in which no command has written a file  *)
(* that is an input of a task whose manifest was already built.             *)
(***************************************************************************)
C13_ScheduleIndependenceAmended ==
  \A j \in Scheduled :
    RunningOnManifest(j) /\ ~thisRun.wroteInput => SameManifestNow(j)

C13_Witness ==
  /\ ~thisRun.wroteInput
  /\ \E k \in Scheduled : \E j \in Scheduled :
       /\ Unordered(k, j)
       /\ allTasks[k].status = "success:eager"
       /\ RunningOnManifest(j)
       /\ HasKey(k)
       /\ files[OutputOf(k)] # atStart.files[OutputOf(k)]

(***************************************************************************)
(* The order of the graph.                                                  *)
(***************************************************************************)
\* the position of a scheduled task in sortedTaskKeys
PositionOf(k) == CHOOSE i \in 1..Len(sortedTaskKeys) : sortedTaskKeys[i] = k

\* every upstream task of the task at position j stands before position i
ReadyAt(j, i) ==
  \A u \in allTasks[sortedTaskKeys[j]].upstreamKeys : PositionOf(u) < i

GraphBuilt == runNo > 0 /\ fatal # "Cycle in task graph"

(***************************************************************************)
(* C14.  Deterministic topological order: sortedTaskKeys lists every        *)
(* scheduled task once, every upstream task before its downstream tasks,    *)
(* and a task stands before every task with a greater key that was ready    *)
(* when it was visited; building the graph again for the same workspace     *)
(* and request gives the same sortedTaskKeys.                               *)
(***************************************************************************)
C14_TopologicalOrder ==
  GraphBuilt =>
    /\ Range(sortedTaskKeys) = Scheduled
    /\ Len(sortedTaskKeys) = Cardinality(Scheduled)
    /\ \A k \in Scheduled : \A u \in allTasks[k].upstreamKeys :
         PositionOf(u) < PositionOf(k)
    /\ \A i \in 1..Len(sortedTaskKeys) : \A j \in 1..Len(sortedTaskKeys) :
         i < j /\ ReadyAt(j, i) => StrLess(sortedTaskKeys[i], sortedTaskKeys[j])
    /\ Rerun => sortedTaskKeys = lastRun.sortedTaskKeys

C14_Witness ==
  /\ GraphBuilt /\ Rerun
  /\ Len(sortedTaskKeys) = 3
  /\ StrLess(sortedTaskKeys[2], sortedTaskKeys[1])
  /\ StrLess(sortedTaskKeys[2], sortedTaskKeys[3])
  /\ ReadyAt(3, 2)

(***************************************************************************)
(* Cycles of the edges.                                                     *)
(***************************************************************************)
RequestedGraph ==
  IF Has(ConfigTable[scenario], "exit") THEN EmptyObject
  ELSE NewAllTasks(ConfigTable[scenario], request)

\* the tasks that ks wait for, directly or through other tasks
RECURSIVE UpstreamClosure(_, _, _)
UpstreamClosure(tasks, ks, n) ==
  IF n = 0 THEN ks
  ELSE UpstreamClosure(tasks,
         ks \cup UNION { tasks[k].upstreamKeys : k \in ks }, n - 1)

\* some task of the requested graph waits for itself
HasCycle ==
  \E k \in DOMAIN RequestedGraph :
    k \in UpstreamClosure(RequestedGraph, RequestedGraph[k].upstreamKeys,
                          Cardinality(DOMAIN RequestedGraph))

ListedNames(k) ==
  Range(getBaseCacheConfig(ConfigTable[scenario], allTasks[k].taskDir).envInputs)
    \cup Range(cache(allTasks[k].taskConfig).envInputs)

EnvLines(k) == SelectSeq(BuiltLines(k), LAMBDA l : l[1] = "env var")

\* the environment is the one the manifests of this run were built in
EnvAsBuilt == edits = {}

\* the manifest of k has one 'env var' entry per listed name, in order,
\* with the hash of the value
EnvEntries(k) ==
  /\ { EnvLines(k)[i][2] : i \in 1..Len(EnvLines(k)) } = ListedNames(k)
  /\ Len(EnvLines(k)) = Cardinality(ListedNames(k))
  /\ \A i \in 1..Len(EnvLines(k)) :
       /\ EnvLines(k)[i][3] = hashString(EnvValue(env, EnvLines(k)[i][2]))
       /\ \A j \in 1..Len(EnvLines(k)) :
            i < j => StrLess(EnvLines(k)[i][2], EnvLines(k)[j][2])

\* the names whose value differs from the value of the previous run
ChangedNames == { e[1] : e \in { x \in thisRun.envEdits : x[2] = "changed" } }

\* the tasks that list a changed name miss, and so do the tasks that inherit
\* their input
EnvChangeMisses ==
  \A k \in Scheduled :
    Cacheable(k) /\ ListedNames(k) \cap ChangedNames # {} =>
      \A d \in InheritingWithin({k}, Cardinality(AllPkgs)) : Missed(d)

WorkspaceDirs == {RootDir} \cup { PkgDir(p) : p \in ScenarioPackages }

\* the lazy.config.* files that are in the directory
ConfigFilesPresent(dir) ==
  { path \in AllPaths : /\ files[path].present
                        /\ FileOf(path).dir = dir
                        /\ FileOf(path).name \in ConfigFileNames }

MultipleConfigs == \E dir \in WorkspaceDirs : Cardinality(ConfigFilesPresent(dir)) > 1

\* the configuration loaded for a directory that has no config file
EmptyConfigFor(dir) ==
  IF dir = RootDir
    THEN ConfigTable[scenario].rootConfig = [filePath |-> "null", config |-> EmptyObject]
    ELSE /\ dir \notin DOMAIN ConfigTable[scenario].packageDirConfigs
         /\ getConfigFromDir(scenario, dir) = [filePath |-> "null", config |-> EmptyObject]

(***************************************************************************)
(* C17.  Config file uniqueness: when a directory of the workspace (the     *)
(* root or a package directory) holds more than one lazy.config.* file,     *)
(* every invocation ends with the fatal error and exit status 1 before a    *)
(* graph is built or a task runs; otherwise a directory without config      *)
(* file has the empty configuration with a null file path.                  *)
(***************************************************************************)
C17_ConfigUniqueness ==
  /\ MultipleConfigs /\ runNo > 0 =>
       /\ phase = "idle"
       /\ exitStatus = 1
       /\ fatal = "Found multiple lazy config files"
       /\ Scheduled = {} /\ sortedTaskKeys = <<>>
       /\ thisRun.spawned = {}
       /\ lazyFiles = EmptyObject /\ files = atStart.files
  /\ ~MultipleConfigs =>
       \A dir \in WorkspaceDirs : ConfigFilesPresent(dir) = {} => EmptyConfigFor(dir)

C17_Witness ==
  /\ RunOver
  /\ exitStatus = 1
  /\ Cardinality(ConfigFilesPresent(RootDir)) <= 1
  /\ \E p \in ScenarioPackages : Cardinality(ConfigFilesPresent(PkgDir(p))) = 2

(***************************************************************************)
(* Upstream tasks whose key enters the manifest of a task.                  *)
(***************************************************************************)
\* the scheduled tasks that k refers to through runsAfter with inheritsInput
\* or through the inheritance from its local package dependencies
ReferencedUpstream(k) ==
  LET ra == runsAfter(allTasks[k].taskConfig)
  IN ({ RunsAfterKey(Tasks, allTasks[k], ra[i][1]).key :
          i \in { n \in 1..Len(ra) : ~Falsy(ra[n][2], "inheritsInput") } }
        \cup (IF InheritsFromDependencies(allTasks[k])
                THEN Range(upstreamTaskKeys(Tasks, allTasks[k])) ELSE {}))
       \cap Scheduled

MissingUpstreamKey(k) ==
  Cacheable(k) /\ \E u \in ReferencedUpstream(k) : ~HasKey(u)

(***************************************************************************)
(* C18.  Missing upstream key is fatal and not masked: when computeManifest *)
(* runs for a task that refers to a scheduled upstream task without         *)
(* inputManifestCacheKey, it throws 'Missing inputManifestCacheKey', the    *)
(* run ends, no manifest or diff is written and the key of the task stays   *)
(* unset.                                                                   *)
(***************************************************************************)
C18_MissingUpstreamKey ==
  [][\A k \in TaskKeys :
       Begins(k) /\ MissingUpstreamKey(k) =>
         /\ fatal' = "Missing inputManifestCacheKey"
         /\ phase' = "idle" /\ exitStatus' = 1
         /\ lazyFiles' = lazyFiles
         /\ allTasks'[k].inputManifestCacheKey = NoKey]_vars

(***************************************************************************)
(* The manifest that end() wrote for a task.                                *)
(***************************************************************************)
\* the lines of the key of k are on disk, as the .next manifest or committed
EndReturned(k) ==
  /\ DiffPathOf(k) \in DOMAIN lazyFiles
  /\ \/ /\ NextPathOf(k) \in DOMAIN lazyFiles
        /\ lazyFiles[NextPathOf(k)] = BuiltLines(k)
     \/ /\ ManifestPathOf(k) \in DOMAIN lazyFiles
        /\ lazyFiles[ManifestPathOf(k)] = BuiltLines(k)

\* computeManifest threw for the task the scheduler took up last
BuildThrew ==
  /\ phase = "idle"
  /\ exitStatus = 1
  /\ fatal \in {"Missing inputManifestCacheKey", "Missing task",
                "Manifest entries out of order"}

(***************************************************************************)
(* C19.  Cache key invariant: at every point of a run a scheduled task has  *)
(* its inputManifestCacheKey set exactly when its cache is not "none", the  *)
(* scheduler has taken it up and its manifest build ran to the end (end()   *)
(* wrote the manifest); a pending, skipped or uncacheable task never has    *)
(* it, and a cacheable task that was taken up lacks it only when            *)
(* computeManifest threw.                                                   *)
(***************************************************************************)
C19_CacheKeyInvariant ==
  \A k \in Scheduled :
    /\ HasKey(k) => Cacheable(k) /\ Started(k) /\ EndReturned(k)
    /\ allTasks[k].status \in {"pending", "skipped"} => ~HasKey(k)
    /\ ~Cacheable(k) => ~HasKey(k)
    /\ Cacheable(k) /\ Started(k) /\ ~HasKey(k) =>
         BuildThrew /\ allTasks[k].status = "running"

C19_Witness ==
  /\ phase = "running"
  /\ \E k \in Scheduled : HasKey(k) /\ allTasks[k].status = "running"
  /\ \E k \in Scheduled : HasKey(k) /\ allTasks[k].status = "success:lazy"
  /\ \E k \in Scheduled : ~HasKey(k) /\ allTasks[k].status = "pending"
                            /\ Cacheable(k)

(***************************************************************************)
(* C20.  Entry uniqueness: in every manifest that computeManifest built,    *)
(* each (type, id) pair appears at most once, also when localDeps names a   *)
(* dependency twice, when an env var name is listed twice and when a file   *)
(* is matched several times.                                                *)
(***************************************************************************)
C20_EntryUniqueness ==
  \A k \in Scheduled :
    HasKey(k) =>
      \A i \in 1..Len(BuiltLines(k)) : \A j \in 1..Len(BuiltLines(k)) :
        i # j => <<BuiltLines(k)[i][1], BuiltLines(k)[i][2]>>
                   # <<BuiltLines(k)[j][1], BuiltLines(k)[j][2]>>

(***************************************************************************)
(* The fast path of the loop over the input files.                         *)
(***************************************************************************)
\* the manifest the build of k found at its manifest path
PreviousOrEmpty(k) == IF HadManifest(k) THEN PreviousManifest(k) ELSE <<>>

FileLines(m) == { m[i] : i \in { n \in 1..Len(m) : m[n][1] = "file" } }

\* the previous manifest has a 'file' line for the path with this metadata
SameMeta(k, line) ==
  \E old \in FileLines(PreviousOrEmpty(k)) : old[2] = line[2] /\ old[4] = line[4]

\* no command of this run has written the file
Unwritten(path) == files[path] = atStart.files[path]

RunsAfterTasks(k, used) ==
  LET ra == runsAfter(allTasks[k].taskConfig)
  IN { RunsAfterKey(Tasks, allTasks[k], ra[i][1]).key :
         i \in { j \in 1..Len(ra) : IsFalse(ra[j][2], "usesOutput") = ~used } }
       \cap DOMAIN allTasks

OutputsOf(ks) == UNION { Range(allTasks[u].outputFiles) : u \in ks }

\* the files the task's own globs and the base cache configuration give
OwnInputs(k) == InputFilesIn(files, Tasks, allTasks[k], <<>>)

FileIds(m) == { line[2] : line \in FileLines(m) }

\* every runsAfter entry of k has usesOutput: false, and k is rebuilt in a
\* rerun in which nothing but the files the commands write has changed
OnlyUnusedOutputsChanged(k) ==
  /\ Rerun /\ lastRun.succeeded
  /\ thisRun.edits = {} /\ thisRun.envEdits = {} /\ edits = {}
  /\ Rebuilt(k)
  /\ RunsAfterTasks(k, FALSE) # {}
  /\ RunsAfterTasks(k, TRUE) = {}

(***************************************************************************)
(* C22.  Upstream outputs as inputs, as stated: the files a manifest lists  *)
(* beyond those of the task's own globs are exactly the output files of    *)
(* the runsAfter upstream tasks in the graph whose usesOutput is not       *)
(* false, whatever inheritsInput is; and when every runsAfter entry has    *)
(* usesOutput: false, a rerun in which only output files have changed      *)
(* builds the manifest of the previous run.                                *)
(***************************************************************************)
C22_UpstreamOutputs ==
  \A k \in Scheduled :
    Cacheable(k) /\ HasKey(k) /\ edits = {} =>
      /\ FileIds(BuiltLines(k)) \ OwnInputs(k)
           = OutputsOf(RunsAfterTasks(k, TRUE)) \ OwnInputs(k)
      /\ OnlyUnusedOutputsChanged(k) => BuiltLines(k) = PreviousManifest(k)

(***************************************************************************)
(* C22 amended.  The same, where the manifest of the previous run is       *)
(* built again only if no output file of the upstream tasks is matched by  *)
(* the task's own input globs or the base cache configuration.             *)
(***************************************************************************)
C22_UpstreamOutputsAmended ==
  \A k \in Scheduled :
    Cacheable(k) /\ HasKey(k) /\ edits = {} =>
      /\ FileIds(BuiltLines(k)) \ OwnInputs(k)
           = OutputsOf(RunsAfterTasks(k, TRUE)) \ OwnInputs(k)
      /\ OnlyUnusedOutputsChanged(k)
           /\ OutputsOf(RunsAfterTasks(k, FALSE)) \cap OwnInputs(k) = {}
           => BuiltLines(k) = PreviousManifest(k)

C22_Witness ==
  /\ \E k \in Scheduled :
       /\ OnlyUnusedOutputsChanged(k)
       /\ \E u \in RunsAfterTasks(k, FALSE) : \E f \in Range(allTasks[u].outputFiles) :
            /\ f \notin OwnInputs(k)
            /\ files[f].content # atStart.files[f].content
            /\ u \in thisRun.spawned
            /\ ~Falsy((CHOOSE e \in Range(runsAfter(allTasks[k].taskConfig)) : TRUE)[2],
                      "inheritsInput")

(***************************************************************************)
(* The inheritance of the inputs of the package dependencies.              *)
(***************************************************************************)
PackagesAt(dir) == { p \in ScenarioPackages : PkgDir(p) = dir }

\* the keys of the task of the same name in the local dependencies of k
DependencyKeys(k) ==
  { allTasks[k].taskName \o "::" \o PkgDir(d) :
      d \in UNION { DirectDeps(p) : p \in PackagesAt(allTasks[k].taskDir) } }

\* runType is not independent and inheritsInputFromDependencies is true
GateOpen(k) ==
  /\ runType(allTasks[k].taskConfig) # "independent"
  /\ cache(allTasks[k].taskConfig).inheritsInputFromDependencies

PackageInputIds(m) ==
  { m[i][2] : i \in { n \in 1..Len(m) : m[n][1] = "upstream package inputs" } }

\* the only change since the last run is to files of packages that the
\* package of k depends on, and nothing else makes k a cache miss
OnlyDependenciesChanged(k) ==
  /\ AfterSuccessfulRun
  /\ ~request.force
  /\ ~lastRun.wroteInput
  /\ thisRun.envEdits = {}
  /\ thisRun.edits # {}
  /\ \A e \in thisRun.edits :
       \E p \in PackagesAt(allTasks[k].taskDir) : \E d \in TransitiveDeps(p) \ {p} :
         FileOf(e[1]).dir = PkgDir(d)

\* k is no cache miss: its command is not spawned, and it ends as a cache
\* hit unless the failure of an upstream task has it skipped
NoMiss(k) ==
  /\ k \notin thisRun.spawned
  /\ OutputUntouched(k)
  /\ Terminal(allTasks[k].status) => allTasks[k].status \in {"success:lazy", "skipped"}

(***************************************************************************)
(* C23.  Package-dependency inheritance gate: the manifest of a task holds  *)
(* an 'upstream package inputs' entry for the task of a local dependency    *)
(* exactly when the task's runType is not independent, its                  *)
(* cache.inheritsInputFromDependencies is true and the dependency's task    *)
(* of the same name is in the graph, and it holds no other entry of that    *)
(* type; a task that is independent or has inheritance disabled is a cache  *)
(* miss in no run in which only inputs of its dependencies have changed.    *)
(***************************************************************************)
C23_InheritanceGate ==
  \A k \in Scheduled :
    Cacheable(k) =>
      /\ HasKey(k) =>
           PackageInputIds(BuiltLines(k))
             = IF GateOpen(k) THEN DependencyKeys(k) \cap Scheduled ELSE {}
      /\ ~GateOpen(k) /\ OnlyDependenciesChanged(k) => NoMiss(k)

C23_Witness ==
  /\ RunOver
  /\ \E k \in Scheduled :
       /\ Cacheable(k) /\ ~GateOpen(k) /\ OnlyDependenciesChanged(k)
       /\ allTasks[k].status = "success:lazy"
       /\ DependencyKeys(k) \cap thisRun.spawned # {}
  /\ \E j \in Scheduled :
       /\ Cacheable(j) /\ HasKey(j) /\ GateOpen(j)
       /\ PackageInputIds(BuiltLines(j)) # {}

(***************************************************************************)
(* The cache files of the scheduled tasks.                                 *)
(***************************************************************************)
CacheFiles(k) == {ManifestPathOf(k), NextPathOf(k), DiffPathOf(k)}

\* the task name with its upper-case letters replaced
LowerCase(name) == IF name = "Codegen" THEN "codegen" ELSE name

\* two tasks of one directory whose names are the same but for letter case
SameButCase(k, j) ==
  /\ allTasks[k].taskDir = allTasks[j].taskDir
  /\ LowerCase(allTasks[k].taskName) = LowerCase(allTasks[j].taskName)

\* the cache files the task has read or written in this invocation
Touched(k) == { f \in CacheFiles(k) : HasKey(k) /\ f \in DOMAIN lazyFiles }

(***************************************************************************)
(* C24.  No shared cache files, as stated: two distinct scheduled tasks    *)
(* never have a manifest path, .next path or diff path in common,          *)
(* whatever the names of two tasks of the same directory are.              *)
(***************************************************************************)
C24_NoSharedCacheFiles ==
  \A k \in Scheduled : \A j \in Scheduled \ {k} :
    CacheFiles(k) \cap CacheFiles(j) = {}

(***************************************************************************)
(* C24 amended.  The same, for two tasks that are not tasks of the same    *)
(* directory with names that differ only in the case of their letters.     *)
(***************************************************************************)
C24_NoSharedCacheFilesAmended ==
  \A k \in Scheduled : \A j \in Scheduled \ {k} :
    ~SameButCase(k, j) => CacheFiles(k) \cap CacheFiles(j) = {}

C24_Witness ==
  \E k \in Scheduled : \E j \in Scheduled \ {k} :
    /\ allTasks[k].taskDir = allTasks[j].taskDir
    /\ ~SameButCase(k, j)
    /\ {allTasks[k].status, allTasks[j].status} = {"running"}
    /\ NextPathOf(k) \in Touched(k)
    /\ NextPathOf(j) \in Touched(j)

(***************************************************************************)
(* The commands that run at the same time.                                 *)
(***************************************************************************)
UpstreamFinished(k) == \A u \in allTasks[k].upstreamKeys : Terminal(allTasks[u].status)

IsParallel(k) == parallel(allTasks[k].taskConfig)

SameInvocation == runNo' = runNo

\* the step spawns the command of k
Spawns(k) == allTasks[k].status # "running" /\ allTasks'[k].status = "running"

(***************************************************************************)
(* C26.  At most one execution per run: within one invocation the command  *)
(* of a scheduled task is spawned at most once, and a status that is       *)
(* success:eager, success:lazy, failure or skipped never changes again.    *)
(***************************************************************************)
C26_AtMostOnce ==
  [][ SameInvocation =>
        /\ DOMAIN allTasks' = DOMAIN allTasks
        /\ \A k \in Scheduled :
             /\ Spawns(k) => k \notin thisRun.spawned /\ allTasks[k].status = "pending"
             /\ Terminal(allTasks[k].status) =>
                  allTasks'[k].status = allTasks[k].status ]_vars

C26_Witness ==
  /\ phase = "running"
  /\ \E k \in thisRun.spawned : allTasks[k].status = "success:eager"
  /\ \E k \in thisRun.spawned : allTasks[k].status = "failure"
  /\ \E k \in Scheduled : allTasks[k].status = "success:lazy"
  /\ \E k \in Scheduled : Ready(k)

(***************************************************************************)
(* The values of the getters of TaskConfig.                                *)
(***************************************************************************)
ConfigOfTask(k) == allTasks[k].taskConfig._config

DefaultGlob == [include |-> <<"**/*">>, exclude |-> <<>>]

\* the glob of the cache configuration of k is written as a bare array
BareArray(k, field) ==
  /\ Has(ConfigOfTask(k), "cache")
  /\ Has(ConfigOfTask(k).cache, field)
  /\ Has(ConfigOfTask(k).cache[field], "array")

(***************************************************************************)
(* C27.  TaskConfig defaults: a task with no configuration has runType     *)
(* 'dependent', no runsAfter, parallel true and a cache object with        *)
(* envInputs [], inheritsInputFromDependencies true,                       *)
(* usesOutputFromDependencies true and inputs and outputs                  *)
(* {include: ['**/*'], exclude: []}; a glob written as a bare array        *)
(* becomes {include: the array, exclude: []}; cache 'none' is returned     *)
(* as it is.                                                               *)
(***************************************************************************)
C27_TaskConfigDefaults ==
  \A k \in Scheduled :
    LET tc == allTasks[k].taskConfig
    IN /\ ConfigOfTask(k) = EmptyObject =>
            /\ runType(tc) = "dependent"
            /\ runsAfter(tc) = <<>>
            /\ parallel(tc) = TRUE
            /\ cache(tc) = [envInputs |-> <<>>,
                            inheritsInputFromDependencies |-> TRUE,
                            usesOutputFromDependencies |-> TRUE,
                            inputs |-> DefaultGlob,
                            outputs |-> DefaultGlob]
       /\ \A field \in {"inputs", "outputs"} :
            BareArray(k, field) =>
              cache(tc)[field] = [include |-> ConfigOfTask(k).cache[field].array,
                                  exclude |-> <<>>]
       /\ (Has(ConfigOfTask(k), "cache") /\ ConfigOfTask(k).cache = NONE) =>
            cache(tc) = NONE

C27_Witness ==
  \E k \in Scheduled : \E j \in thisRun.spawned :
    /\ ConfigOfTask(k) = EmptyObject
    /\ j \in allTasks[k].upstreamKeys
    /\ Has(ConfigOfTask(j), "cache") /\ ConfigOfTask(j).cache = NONE
    /\ allTasks[j].status = "success:eager"

(***************************************************************************)
(* The end of runAllTasks.                                                 *)
(***************************************************************************)
AllTerminal == \A k \in Scheduled : Terminal(allTasks[k].status)

\* runAllTasks has returned or thrown
Returned == phase = "idle"

(***************************************************************************)
(* C28.  Termination: when every spawned command exits, runAllTasks comes  *)
(* to an end, and then every scheduled task is success:eager,              *)
(* success:lazy, failure or skipped: no task is left pending or running,   *)
(* in particular no task downstream of a failed or skipped task.           *)
(***************************************************************************)
C28_Termination == (phase = "running") ~> (Returned /\ AllTerminal)

(***************************************************************************)
(* The run after a run in which a command failed.                          *)
(***************************************************************************)
\* the command of k exited non-zero in the previous invocation and no
\* input has been changed since
FailedLastRun(k) ==
  /\ Rerun
  /\ k \in lastRun.failed
  /\ thisRun.edits = {} /\ thisRun.envEdits = {}

(***************************************************************************)
(* C29.  Failed runs are not cached: a task whose command exited non-zero  *)
(* in one run is no cache hit in the following run with no change to any   *)
(* input: unless an upstream failure has it skipped, its command is        *)
(* spawned again.                                                          *)
(***************************************************************************)
C29_FailedRunsNotCached ==
  \A k \in Scheduled :
    FailedLastRun(k) =>
      /\ allTasks[k].status # "success:lazy"
      /\ Terminal(allTasks[k].status) /\ allTasks[k].status # "skipped" =>
           k \in thisRun.spawned

\* the tasks whose inputManifestCacheKey or outputFiles the loop over runsAfter
\* of computeManifest reads while it builds the manifest of v
RunsAfterReads(v) ==
  LET task == allTasks[v]
      ra == runsAfter(task.taskConfig)
  IN { RunsAfterKey(Tasks, task, ra[i][1]).key :
         i \in { j \in 1..Len(ra) :
                   ~(Falsy(ra[j][2], "inheritsInput") /\ IsFalse(ra[j][2], "usesOutput")) } }
       \cap Scheduled

\* the tasks whose inputManifestCacheKey the loop over the local package
\* dependencies reads
PackageReads(v) ==
  IF InheritsFromDependencies(allTasks[v])
    THEN Range(upstreamTaskKeys(Tasks, allTasks[v])) \cap Scheduled
    ELSE {}

\* line 232: nothing is read for a task that is not cached
ManifestReads(v) ==
  IF IsNone(cache(allTasks[v].taskConfig)) THEN {}
  ELSE RunsAfterReads(v) \cup PackageReads(v)

\* computeManifest has been called for v in this invocation
ManifestBuilt(v) == allTasks[v].status \notin {"pending", "skipped"}

\* C30: every task that computeManifest reads while it builds the manifest of
\* a task v (the runsAfter targets it does not pass over and, unless v is
\* independent, the tasks of the local package dependencies) is an upstream
\* of v in the task graph, and it has reached a terminal status, so that its
\* inputManifestCacheKey and outputFiles are final, once the manifest of v
\* has been built.
C30_ReadsFollowEdges ==
  \A v \in Scheduled :
    \A u \in ManifestReads(v) :
      /\ u \in allTasks[v].upstreamKeys
      /\ ManifestBuilt(v) => Terminal(allTasks[u].status)

\* computeManifest has been called for a task that reads both a runsAfter
\* target and the task of a local package dependency, and it has built the
\* manifest of a task from the output files of a runsAfter target
C30_Witness ==
  /\ \E v \in Scheduled :
       /\ ManifestBuilt(v)
       /\ RunsAfterReads(v) \cap ManifestReads(v) # {}
       /\ PackageReads(v) \cap ManifestReads(v) # {}
  /\ \E v \in Scheduled :
       /\ ManifestBuilt(v)
       /\ allTasks[v].inputManifestCacheKey # NoKey
       /\ \E u \in RunsAfterReads(v) \cap ManifestReads(v) :
            allTasks[u].outputFiles # <<>>

\* the 'upstream package inputs' entries of a manifest: the task keys
PackageEntries(m) ==
  { m[i][2] : i \in { n \in 1..Len(m) : m[n][1] = "upstream package inputs" } }

\* the manifest computeManifest has built for k in this invocation
BuiltManifest(k) == allTasks[k].inputManifestCacheKey[2]

\* the tasks of the local dependencies of k that are in the graph now and
\* were not in the graph of the invocation before, which scheduled k
NewlyScheduledDeps(k) ==
  IF Rerun /\ k \in Range(lastRun.sortedTaskKeys)
       /\ ~IsNone(cache(allTasks[k].taskConfig))
    THEN PackageReads(k) \ Range(lastRun.sortedTaskKeys)
    ELSE {}

NothingEdited == thisRun.edits = {} /\ thisRun.envEdits = {}

\* C31: the manifest of a task has an 'upstream package inputs' entry only
\* for the tasks of its local dependencies that are in the graph of the
\* invocation; a task that was run with a filter that left out the package
\* of a local dependency and is run again without it, with no change to a
\* file or to the environment, gets a manifest with an entry that the saved
\* manifest does not have, and is a cache miss: its command is spawned.
C31_ScheduledSetInFingerprint ==
  \A k \in Scheduled :
    allTasks[k].inputManifestCacheKey # NoKey =>
      /\ PackageEntries(BuiltManifest(k)) \subseteq Scheduled
      /\ NothingEdited =>
           \A d \in NewlyScheduledDeps(k) :
             /\ d \in PackageEntries(BuiltManifest(k))
             /\ allTasks[k].status # "success:lazy"
             /\ k \in thisRun.spawned


\* the TaskGraph without the nodes of gone
Without(gone) ==
  [config |-> Tasks.config,
   allTasks |-> [ k \in Scheduled \ gone |-> allTasks[k] ]]

\* line 257: the entry is passed over
Ignored(entry) == Falsy(entry[2], "inheritsInput") /\ IsFalse(entry[2], "usesOutput")

TaskEntries(m) ==
  { m[i][2] : i \in { n \in 1..Len(m) : m[n][1] = "upstream task inputs" } }

\* C32: while the manifest of a task is built, a runsAfter entry whose
\* inheritsInput is falsy and whose usesOutput is false adds nothing, whether
\* or not the task it names is in the graph; any other entry makes
\* computeManifest throw 'Missing task' when the task it names is top-level
\* by the config of the directory of the task and has no node in the graph,
\* and adds neither a manifest entry nor extra files when the task is not
\* top-level and has no node in the directory of the task.
C32_RunsAfterResolution ==
  \A k \in Scheduled :
    LET task == allTasks[k]
        ra == runsAfter(task.taskConfig)
    IN \A i \in 1..Len(ra) : \A gone \in SUBSET Scheduled :
         LET t == Without(gone)
             r == RunsAfterKey(t, task, ra[i][1])
             missing == r.key \notin DOMAIN t.allTasks
         IN /\ Ignored(ra[i]) =>
                 /\ RunsAfterSteps(t, task, ra[i]) = <<>>
                 /\ RunsAfterExtraFiles(t, task, ra[i]) = <<>>
            /\ ~Ignored(ra[i]) /\ r.isTopLevel /\ missing =>
                 RunsAfterSteps(t, task, ra[i]) = <<ThrowStep("Missing task")>>
            /\ ~Ignored(ra[i]) /\ ~r.isTopLevel /\ missing =>
                 /\ RunsAfterSteps(t, task, ra[i]) = <<>>
                 /\ RunsAfterExtraFiles(t, task, ra[i]) = <<>>
            /\ gone = {} /\ task.inputManifestCacheKey # NoKey
                 /\ (Ignored(ra[i]) \/ missing) =>
                   r.key \notin TaskEntries(BuiltManifest(k))

\* a manifest has been built for a task with an entry that is passed over
\* though its task is in the graph, an entry for a task that is not top-level
\* and not in the graph, and an entry for a top-level task that makes
\* computeManifest throw in the graph without its node
C32_Witness ==
  \E k \in Scheduled :
    LET task == allTasks[k]
        ra == runsAfter(task.taskConfig)
    IN /\ task.inputManifestCacheKey # NoKey
       /\ task.status = "success:eager"
       /\ \E i \in 1..Len(ra) :
            Ignored(ra[i]) /\ RunsAfterKey(Tasks, task, ra[i][1]).key \in Scheduled
       /\ \E i \in 1..Len(ra) :
            /\ ~Ignored(ra[i])
            /\ ~RunsAfterKey(Tasks, task, ra[i][1]).isTopLevel
            /\ RunsAfterKey(Tasks, task, ra[i][1]).key \notin Scheduled
       /\ \E i \in 1..Len(ra) :
            LET r == RunsAfterKey(Tasks, task, ra[i][1])
            IN /\ ~Ignored(ra[i]) /\ r.isTopLevel /\ r.key \in Scheduled
               /\ computeManifest(Without({r.key}), task)
                    = [result |-> "throw", msg |-> "Missing task"]

ConfiguredNames == {"build", "codegen", "Codegen", "prep"}

\* the settings of a task in the object a config file exports
SettingsIn(c, taskName) ==
  IF Has(c, "tasks") /\ Has(c.tasks, taskName) THEN c.tasks[taskName] ELSE EmptyObject

\* the package directory has a config file of its own
HasOwnConfig(d) == d \in DOMAIN PackageDirConfigsOf(scenario)

OwnConfig(d) == PackageDirConfigsOf(scenario)[d].config

RootConfig == RootConfigOf(scenario).config

OwnBase(d) == HasOwnConfig(d) /\ Has(OwnConfig(d), "baseCacheConfig")

\* the baseCacheConfig that applies in d, when a config file has one
BaseOf(d) ==
  IF OwnBase(d) THEN OwnConfig(d).baseCacheConfig
  ELSE IF Has(RootConfig, "baseCacheConfig") THEN RootConfig.baseCacheConfig
  ELSE EmptyObject

ConfigLoaded == runNo > 0 /\ ~Has(ConfigTable[scenario], "exit")

\* C33: getTaskConfig takes the settings of a task in directory d from the
\* config file of d alone when d has one (defaults when that file does not
\* define the task, whatever the root config defines) and from the root
\* config otherwise; getBaseCacheConfig takes the baseCacheConfig of d's
\* config file, or the one of the root config when d's file has none, and
\* the includes are the lockfiles and lazy.config.* when the one that
\* applies defines none.  The tasks of the graph carry these settings.
C33_ConfigResolution ==
  ConfigLoaded =>
    /\ \A d \in ConfigDirs(scenario) : \A t \in ConfiguredNames :
         getTaskConfig(ConfigTable[scenario], d, t)._config
           = IF HasOwnConfig(d) THEN SettingsIn(OwnConfig(d), t)
             ELSE SettingsIn(RootConfig, t)
    /\ \A d \in ConfigDirs(scenario) :
         LET b == getBaseCacheConfig(ConfigTable[scenario], d)
         IN /\ b.includes = IF Has(BaseOf(d), "includes") THEN BaseOf(d).includes
                            ELSE DefaultBaseIncludes
            /\ b.excludes = IF Has(BaseOf(d), "excludes") THEN BaseOf(d).excludes
                            ELSE <<>>
            /\ b.envInputs = IF Has(BaseOf(d), "envInputs") THEN BaseOf(d).envInputs
                             ELSE <<>>
    /\ \A k \in Scheduled :
         allTasks[k].taskConfig._config
           = IF HasOwnConfig(allTasks[k].taskDir)
               THEN SettingsIn(OwnConfig(allTasks[k].taskDir), allTasks[k].taskName)
               ELSE SettingsIn(RootConfig, allTasks[k].taskName)

\* a task has run with the default settings in a directory whose config file
\* does not define it, though the root config does, and with the envInputs
\* of the root baseCacheConfig and the default includes in its manifest
C33_Witness ==
  \E k \in Scheduled :
    LET d == allTasks[k].taskDir
        m == BuiltManifest(k)
    IN /\ HasOwnConfig(d) /\ ~OwnBase(d)
       /\ SettingsIn(OwnConfig(d), allTasks[k].taskName) = EmptyObject
       /\ SettingsIn(RootConfig, allTasks[k].taskName) # EmptyObject
       /\ allTasks[k].taskConfig._config = EmptyObject
       /\ allTasks[k].inputManifestCacheKey # NoKey
       /\ allTasks[k].status = "success:eager"
       /\ \E i \in 1..Len(m) : m[i][1] = "env var" /\ m[i][2] = "NODE_ENV"
       /\ \E i \in 1..Len(m) : m[i][1] = "file" /\ m[i][2] = "package-lock.json"
====
